---- MODULE Spec2Model ----
(***************************************************************************)
(* State synchronisation and stable-layout core of the 3D photo collage:   *)
(*   - SlotManager        (src/src/hooks/usePhotoPositions.ts)             *)
(*   - collage store      (src/unnamed/part_008, store/collageStore.ts)    *)
(*   - TextureCache       (src/src/lib/textureCache.ts)                    *)
(* Each component has its own specification over its own variables; the    *)
(* variables of the other components stay at their constructed values.     *)
(***************************************************************************)
EXTENDS Integers, Sequences, FiniteSets, TLC

(***************************************************************************)
(* Generic helpers for JavaScript Map / Set / Array values.                *)
(* A Map is a function whose DOMAIN is its key set.                        *)
(***************************************************************************)
EmptyMap == << >>

MapHas(m, k) == k \in DOMAIN m

MapSet(m, k, v) == [x \in (DOMAIN m) \cup {k} |-> IF x = k THEN v ELSE m[x]]

MapDelete(m, k) == [x \in (DOMAIN m) \ {k} |-> m[x]]

MapValues(m) == {m[k] : k \in DOMAIN m}

SeqToSet(s) == {s[i] : i \in 1..Len(s)}

\* All sequences over S of length 0..n
SeqsUpTo(S, n) == UNION {[1..k -> S] : k \in 0..n}

(***************************************************************************)
(* Bounds                                                                  *)
(***************************************************************************)
MaxSlots == 3
MaxSnapshot == 3
MaxClock == 3
MaxChannels == 2
MaxInFlight == 1
MaxEvents == 1
MaxLoads == 3
MaxConnects == 2
MaxDeletes == 1
MaxUploads == 1
MaxReplay == 3
MaxFloatCount == 1

(***************************************************************************)
(* State                                                                   *)
(***************************************************************************)
\* Collage store: photo state (store/collageStore.ts)
VARIABLES
    photoState,        \* [byId: Map id -> Photo, allIds: array of ids, lastUpdated]
    lastRefreshTime,
    now,               \* the clock read by Date.now()
    storeCall          \* history: the last store call and its argument

storeVars == <<photoState, lastRefreshTime, now, storeCall>>

\* SlotManager (usePhotoPositions.ts)
VARIABLES
    slotAssignments,   \* Map photoId -> slotIndex
    occupiedSlots,     \* Set of slot indices
    availableSlots,    \* array of free slot indices, shuffled
    totalSlots,        \* current slot count
    slotCall           \* history: the last SlotManager call and what it did

slotVars == <<slotAssignments, occupiedSlots, availableSlots, totalSlots, slotCall>>

\* Collage store: realtime session (store/collageStore.ts) and its environment
VARIABLES
    realtimeChannel,      \* the held feed channel, or NoChannel
    isRealtimeConnected,
    pollingInterval,      \* collage id the active setInterval polls, or NoTimer
    channelsCreated,      \* number of channels created so far
    removedChannels,      \* numbers of the channels passed to supabase.removeChannel
    pollErrorLogged,      \* console.error('Polling error') has been called
    chanState,            \* feed side of the held channel: joining, joined, errored, closed
    confirmed,            \* history: the held channel has reported SUBSCRIBED
    staleClosed,          \* a released channel still has its CLOSED status to report
    deadlines,            \* pending 5 s setTimeout callbacks, in firing order
    polls,                \* poll fetches in flight: [collageId, ok, data]
    events,               \* postgres_changes payloads on their way to the held channel
    remote,               \* ids of the rows of the remote photos table
    remoteFrozen          \* the remote table has stopped changing

syncVars == <<realtimeChannel, isRealtimeConnected, pollingInterval, channelsCreated,
              removedChannels, pollErrorLogged, chanState, confirmed, staleClosed,
              deadlines, polls, events, remote, remoteFrozen>>

\* Collage store: the asynchronous operations of the client (store/collageStore.ts)
VARIABLES
    currentCollage,    \* id of the collage in currentCollage, or "none"
    connects,          \* the fetchCollageById / fetchCollageByCode, refreshPhotos and
                       \* fetchPhotosByCollageId calls: [id, stage, turn]
    deletes,           \* the deletePhoto calls: [id, stage]
    uploads            \* the uploadPhoto calls: [collageId, stage]

clientVars == <<currentCollage, connects, deletes, uploads>>

\* TextureCache (lib/textureCache.ts) and the loads it has started
VARIABLES
    cache,             \* Map url -> texture
    loadingPromises,   \* Map url -> promise
    promises,          \* the load promises created so far, by number: [url, status, texture]
    loads,             \* loader.load calls that have not called back: [url, promise]
    disposed,          \* textures on which dispose() has been called
    cacheCall          \* history: the last call, what it returned, whether it started a load

cacheVars == <<cache, loadingPromises, promises, loads, disposed, cacheCall>>

\* Two deliveries of one collection of feed payloads, in two orders, each to a
\* store of its own (store/collageStore.ts, the postgres_changes callback)
VARIABLES
    deliveries,        \* [first, second]: the event types still to be delivered
    replicas           \* [first, second]: [photoState, lastRefreshTime] of each store

replayVars == <<deliveries, replicas>>

\* useRealtimeCollage (hooks/useRealtimeCollage.ts): the connection effect
VARIABLES
    hookProps,         \* [collageId, collageCode, autoConnect] of the last render
    connectionKeyRef,  \* connectionKeyRef.current
    effectCleanup      \* the last run of the effect returned its cleanup function

hookVars == <<hookProps, connectionKeyRef, effectCleanup>>

\* usePhotoPositions (hooks/usePhotoPositions.ts) and the scene's photoPositions
\* (src/unnamed/part_006)
VARIABLES
    photosWithPositions, \* the hook's state: the frame, an array of entries
    layoutCall,          \* history: photoCount and pattern state of the last run
    photoPositions       \* the scene's memoized positions, with their settings

layoutVars == <<photosWithPositions, layoutCall, photoPositions>>

\* what the page's hooks and the replayed stores hold
pageVars == <<replayVars, hookVars, layoutVars>>

vars == <<slotVars, storeVars, syncVars, cacheVars, clientVars, pageVars>>

(***************************************************************************)
(* SlotManager (usePhotoPositions.ts)                                      *)
(***************************************************************************)

\* created_at absent (undefined, falsy); present times are positive
NoDate == 0

\* The photos the layout can be handed.  A photo is immutable, so its created_at
\* is a function of its id; "b" and "c" share a creation time, "d" has none.
LayoutPhotoIds == {"a", "b", "c", "d"}

CreatedAtOf(id) ==
    CASE id = "a" -> 2
      [] id = "b" -> 1
      [] id = "c" -> 1
      [] OTHER    -> NoDate

\* String order of the ids (a.id.localeCompare(b.id))
IdRank(id) ==
    CASE id = "a" -> 1
      [] id = "b" -> 2
      [] id = "c" -> 3
      [] OTHER    -> 4

LayoutPhoto(id) == [id |-> id, created_at |-> CreatedAtOf(id)]

\* A list entry with a falsy id, which assignSlots filters out
FalsyPhoto == [id |-> "", created_at |-> 1]

LayoutPhotos == {LayoutPhoto(id) : id \in LayoutPhotoIds}

\* The lists assignSlots is called with: every duplicate-free list of the photos
\* (up to all four, so more photos than slots), and every such list of at most
\* two photos followed by a falsy entry or by a repeat of its first photo
DupFreeLists ==
    {l \in SeqsUpTo(LayoutPhotos, Cardinality(LayoutPhotoIds)) :
        \A i, j \in 1..Len(l) : i # j => l[i] # l[j]}

ShortLists == {l \in DupFreeLists : Len(l) <= 2}

PhotoLists ==
    DupFreeLists
    \cup {Append(l, FalsyPhoto) : l \in ShortLists}
    \cup {Append(l, l[1]) : l \in ShortLists \ {<< >>}}

\* Math.random() draws of one shuffleArray run over an array of length n:
\* for each i in n-1 .. 1 a j in 0..i
RandomDraws(n) == {r \in [1..(n - 1) -> 0..(n - 1)] : \A i \in 1..(n - 1) : r[i] <= i}

\* shuffleArray, lines 60-63: the steps i = hi down to lo of the loop.  A long
\* loop is run in two halves, the second from the array the first has left, so
\* that a table of a hundred slots nests only a few evaluations.
RECURSIVE shuffleRange(_, _, _, _)
shuffleRange(array, hi, lo, rnd) ==
    IF hi < lo THEN array
    ELSE IF hi = lo
         THEN LET j == rnd[hi]
              IN [array EXCEPT ![hi + 1] = array[j + 1], ![j + 1] = array[hi + 1]]
         ELSE LET mid == (lo + hi) \div 2
              IN CHOOSE result \in {shuffleRange(half, mid, lo, rnd) :
                                       half \in {shuffleRange(array, hi, mid + 1, rnd)}} : TRUE

\* shuffleArray: Fisher-Yates from the back (array indices are 0-based in the source)
shuffleFrom(array, i, rnd) == shuffleRange(array, i, 1, rnd)

shuffleArray(array, rnd) == shuffleFrom(array, Len(array) - 1, rnd)

\* the free slots i..total-1 in ascending order (the loop of lines 50-54, run
\* in two halves)
RECURSIVE freeSlotsFrom(_, _, _)
freeSlotsFrom(i, total, occupied) ==
    IF i >= total THEN << >>
    ELSE IF i + 1 = total
         THEN IF i \notin occupied THEN <<i>> ELSE << >>
         ELSE LET mid == (i + total) \div 2
              IN freeSlotsFrom(i, mid, occupied) \o freeSlotsFrom(mid, total, occupied)

rebuildAvailableSlots(total, occupied, rnd) ==
    shuffleArray(freeSlotsFrom(0, total, occupied), rnd)

\* number of free slots, i.e. the length of the array that gets shuffled
FreeCount(total, occupied) == Len(freeSlotsFrom(0, total, occupied))

\* a limit test that keeps the assignment of the slot index equal to the new count
dropBeyond_KeepsLimit(assignments, newTotal) ==
    [id \in {k \in DOMAIN assignments : assignments[k] <= newTotal} |-> assignments[id]]

\* updateSlotCount, lines 36-42: drop the assignments beyond the new limit
dropBeyond(assignments, newTotal) ==
    [id \in {k \in DOMAIN assignments : assignments[k] < newTotal} |-> assignments[id]]

occupiedAfterDropBeyond(assignments, occupied, newTotal) ==
    occupied \ {assignments[k] : k \in {x \in DOMAIN assignments : assignments[x] >= newTotal}}

\* assignSlots, line 68
safePhotosOf(photos) == SelectSeq(photos, LAMBDA p : p.id # "")

\* assignSlots, lines 71-78: drop the assignments of photos that are gone
dropAbsent(assignments, currentPhotoIds) ==
    [id \in (DOMAIN assignments) \cap currentPhotoIds |-> assignments[id]]

\* a removal that leaves the slot of a photo that is gone in occupiedSlots
occupiedAfterDropAbsent_KeepsSlot(assignments, occupied, currentPhotoIds) == occupied

occupiedAfterDropAbsent(assignments, occupied, currentPhotoIds) ==
    occupied \ {assignments[k] : k \in (DOMAIN assignments) \ currentPhotoIds}

\* the comparator of assignSlots, lines 83-88
comparePhotos(a, b) ==
    IF a.created_at # NoDate /\ b.created_at # NoDate
    THEN a.created_at - b.created_at
    ELSE IdRank(a.id) - IdRank(b.id)

\* [...safePhotos].sort(comparePhotos), lines 83-88.  The comparator is not
\* transitive when a photo without created_at has an id below that of a dated
\* photo, so the order is the one the engine's algorithm produces.  The engine
\* (V8) sorts an array of fewer than 64 elements as one run: it takes the
\* longest ascending or strictly descending prefix (reversed when descending) and
\* inserts each further element by binary search.  Positions are 0-based as in
\* the engine; the element at position k is array[k + 1].

\* the end (exclusive) of the run that starts at position 0, tested from idx on
RECURSIVE runEnd(_, _, _)
runEnd(array, isDescending, idx) ==
    IF idx >= Len(array) THEN idx
    ELSE LET order == comparePhotos(array[idx + 1], array[idx])
         IN IF (isDescending /\ order >= 0) \/ (~isDescending /\ order < 0)
            THEN idx
            ELSE runEnd(array, isDescending, idx + 1)

\* the length of the first run and the array with that run made ascending
CountAndMakeRun(array) ==
    LET isDescending == comparePhotos(array[2], array[1]) < 0
        runLength    == runEnd(array, isDescending, 2)
    IN [runLength |-> runLength,
        array     |-> IF isDescending
                      THEN [k \in 1..Len(array) |->
                               IF k <= runLength THEN array[runLength + 1 - k]
                               ELSE array[k]]
                      ELSE array]

\* the position in [left, right) at which pivot is inserted
RECURSIVE insertionPoint(_, _, _, _)
insertionPoint(array, pivot, left, right) ==
    IF left >= right THEN left
    ELSE LET mid == left + ((right - left) \div 2)
         IN IF comparePhotos(pivot, array[mid + 1]) < 0
            THEN insertionPoint(array, pivot, left, mid)
            ELSE insertionPoint(array, pivot, mid + 1, right)

\* the elements from position start on are inserted into the sorted prefix
RECURSIVE BinaryInsertionSort(_, _)
BinaryInsertionSort(array, start) ==
    IF start >= Len(array) THEN array
    ELSE LET pivot == array[start + 1]
             left  == insertionPoint(array, pivot, 0, start)
         IN BinaryInsertionSort(SubSeq(array, 1, left) \o <<pivot>>
                                    \o SubSeq(array, left + 1, start)
                                    \o SubSeq(array, start + 2, Len(array)),
                                start + 1)

sortPhotos(photos) ==
    IF Len(photos) < 2 THEN photos
    ELSE LET run == CountAndMakeRun(photos)
         IN BinaryInsertionSort(run.array, run.runLength)

\* A loop that hands a slot to a photo that already has one (no has() test)
RECURSIVE assignLoop_Reassign(_, _)
assignLoop_Reassign(sortedPhotos, st) ==
    IF sortedPhotos = << >> THEN st
    ELSE LET photo == Head(sortedPhotos)
         IN IF Len(st.availableSlots) > 0
            THEN LET slotIndex == Head(st.availableSlots)
                 IN assignLoop_Reassign(Tail(sortedPhotos),
                        [slotAssignments |-> MapSet(st.slotAssignments, photo.id, slotIndex),
                         occupiedSlots   |-> st.occupiedSlots \cup {slotIndex},
                         availableSlots  |-> Tail(st.availableSlots)])
            ELSE assignLoop_Reassign(Tail(sortedPhotos), st)

\* A loop that reads the next free slot without taking it off the array
RECURSIVE assignLoop_NoShift(_, _)
assignLoop_NoShift(sortedPhotos, st) ==
    IF sortedPhotos = << >> THEN st
    ELSE LET photo == Head(sortedPhotos)
         IN IF ~MapHas(st.slotAssignments, photo.id) /\ Len(st.availableSlots) > 0
            THEN LET slotIndex == Head(st.availableSlots)
                 IN assignLoop_NoShift(Tail(sortedPhotos),
                        [slotAssignments |-> MapSet(st.slotAssignments, photo.id, slotIndex),
                         occupiedSlots   |-> st.occupiedSlots \cup {slotIndex},
                         availableSlots  |-> st.availableSlots])
            ELSE assignLoop_NoShift(Tail(sortedPhotos), st)

\* assignSlots, lines 90-96
RECURSIVE assignLoop(_, _)
assignLoop(sortedPhotos, st) ==
    IF sortedPhotos = << >> THEN st
    ELSE LET photo == Head(sortedPhotos)
         IN IF ~MapHas(st.slotAssignments, photo.id) /\ Len(st.availableSlots) > 0
            THEN LET slotIndex == Head(st.availableSlots)
                 IN assignLoop(Tail(sortedPhotos),
                        [slotAssignments |-> MapSet(st.slotAssignments, photo.id, slotIndex),
                         occupiedSlots   |-> st.occupiedSlots \cup {slotIndex},
                         availableSlots  |-> Tail(st.availableSlots)])
            ELSE assignLoop(Tail(sortedPhotos), st)

\* assignSlots up to the shuffle: the table with the absent photos dropped,
\* and the photos in the order of the assignment loop
assignSlotsPrepare(assignments, occupied, photos) ==
    LET safePhotos      == safePhotosOf(photos)
        currentPhotoIds == {p.id : p \in SeqToSet(safePhotos)}
    IN [slotAssignments |-> dropAbsent(assignments, currentPhotoIds),
        occupiedSlots   |-> occupiedAfterDropAbsent(assignments, occupied, currentPhotoIds),
        sortedPhotos    |-> sortPhotos(safePhotos),
        currentPhotoIds |-> currentPhotoIds]

\* assignSlots from the shuffle on: rebuildAvailableSlots, then the assignment loop
assignSlotsFinish(prep, total, rnd) ==
    assignLoop(prep.sortedPhotos,
               [slotAssignments |-> prep.slotAssignments,
                occupiedSlots   |-> prep.occupiedSlots,
                availableSlots  |-> rebuildAvailableSlots(total, prep.occupiedSlots, rnd)])

\* assignSlots as a function of the table, the list and the shuffle's draws
assignSlots(assignments, occupied, total, photos, rnd) ==
    assignSlotsFinish(assignSlotsPrepare(assignments, occupied, photos), total, rnd)

\* History of one call: which call it was, the ids of its list, and whether it
\* met an id that had a slot and is in the list, dropped an assignment, or
\* assigned a new id
SlotCallOf(op, before, after, ids) ==
    [op      |-> op,
     ids     |-> ids,
     kept    |-> (DOMAIN before) \cap ids # {},
     dropped |-> (DOMAIN before) \ (DOMAIN after) # {},
     added   |-> (DOMAIN after) \ (DOMAIN before) # {}]

SlotInit ==
    /\ totalSlots \in 0..MaxSlots
    /\ slotAssignments = EmptyMap
    /\ occupiedSlots = {}
    /\ \E rnd \in RandomDraws(totalSlots) :
           availableSlots = rebuildAvailableSlots(totalSlots, {}, rnd)
    /\ slotCall = SlotCallOf("new", EmptyMap, EmptyMap, {})

\* updateSlotCount(newTotal) with newTotal equal to the current count: early return
UpdateSlotCountSame ==
    /\ slotCall' = SlotCallOf("updateSlotCountSame", slotAssignments, slotAssignments, {})
    /\ UNCHANGED <<slotAssignments, occupiedSlots, availableSlots, totalSlots>>
    /\ UNCHANGED <<storeVars, syncVars, cacheVars, clientVars, pageVars>>

UpdateSlotCount(newTotal) ==
    /\ newTotal # totalSlots
    /\ totalSlots' = newTotal
    /\ slotAssignments' = dropBeyond(slotAssignments, newTotal)
    /\ occupiedSlots' = occupiedAfterDropBeyond(slotAssignments, occupiedSlots, newTotal)
    /\ \E rnd \in RandomDraws(FreeCount(newTotal, occupiedSlots')) :
           availableSlots' = rebuildAvailableSlots(newTotal, occupiedSlots', rnd)
    /\ slotCall' = SlotCallOf("updateSlotCount", slotAssignments, slotAssignments', {})
    /\ UNCHANGED <<storeVars, syncVars, cacheVars, clientVars, pageVars>>

AssignSlots(photos) ==
    LET prep == assignSlotsPrepare(slotAssignments, occupiedSlots, photos)
    IN \E rnd \in RandomDraws(FreeCount(totalSlots, prep.occupiedSlots)) :
         LET st == assignSlotsFinish(prep, totalSlots, rnd)
         IN /\ slotAssignments' = st.slotAssignments
            /\ occupiedSlots' = st.occupiedSlots
            /\ availableSlots' = st.availableSlots
            /\ slotCall' = SlotCallOf("assignSlots", slotAssignments, st.slotAssignments,
                                      prep.currentPhotoIds)
            /\ UNCHANGED totalSlots
            /\ UNCHANGED <<storeVars, syncVars, cacheVars, clientVars, pageVars>>

(***************************************************************************)
(* C1  Slot stability: an assignSlots call whose list contains X, made     *)
(* with X already holding a slot, leaves X holding that same slot (the     *)
(* slot count does not change in an assignSlots call, and an               *)
(* updateSlotCount call with the current count changes nothing).           *)
(***************************************************************************)
C1_SlotStability ==
    [][\A x \in LayoutPhotoIds :
          ( /\ totalSlots' = totalSlots
            /\ MapHas(slotAssignments, x)
            /\ slotCall'.op = "assignSlots" => x \in slotCall'.ids )
          => ( /\ MapHas(slotAssignments', x)
               /\ slotAssignments'[x] = slotAssignments[x] )]_vars

\* an assignSlots call that met an assigned id of its list while it dropped
\* another id and gave a slot to a new one
C1_Witness ==
    /\ slotCall.op = "assignSlots"
    /\ slotCall.kept /\ slotCall.dropped /\ slotCall.added

(***************************************************************************)
(* C2  SlotTable invariant: the assignment map is injective, the occupied  *)
(* set is exactly the set of assigned slot indices, and every assigned     *)
(* index is in [0, totalSlots).                                            *)
(***************************************************************************)
C2_SlotTableInvariant ==
    /\ \A x, y \in DOMAIN slotAssignments :
           slotAssignments[x] = slotAssignments[y] => x = y
    /\ occupiedSlots = MapValues(slotAssignments)
    /\ \A x \in DOMAIN slotAssignments :
           slotAssignments[x] >= 0 /\ slotAssignments[x] < totalSlots

\* a table that was shrunk below an assigned index, with assignments left
C2_Witness ==
    /\ slotCall.op = "updateSlotCount"
    /\ slotCall.dropped
    /\ Cardinality(DOMAIN slotAssignments) >= 1
    /\ Cardinality(DOMAIN slotAssignments) = totalSlots

(***************************************************************************)
(* Collage store: photo state (store/collageStore.ts)                      *)
(***************************************************************************)
StoreIds == {"p1", "p2", "p3"}

\* the collage a photo row belongs to
CollageOf(id) == IF id = "p3" THEN "B" ELSE "A"

Photo(id, url) == [id |-> id, collage_id |-> CollageOf(id), url |-> url]

\* the photo rows; "p1" exists with two field contents (an updated row)
StorePhotos == {Photo("p1", "u1"), Photo("p1", "u2"), Photo("p2", "u1"), Photo("p3", "u1")}

\* arrays handed to updatePhotosFromArray
SnapshotLists == SeqsUpTo(StorePhotos, MaxSnapshot)

\* the store's initial state, lines 137-141 and 152
InitialPhotoState == [byId |-> EmptyMap, allIds |-> << >>, lastUpdated |-> 0]

\* the part of the zustand state the photo operations read and write
StoreState == [photoState |-> photoState, lastRefreshTime |-> lastRefreshTime]

\* an insert that does not test for the id being present
addPhotoToState_NoCheck(state, photo, t) ==
    [photoState |-> [byId        |-> MapSet(state.photoState.byId, photo.id, photo),
                     allIds      |-> <<photo.id>> \o state.photoState.allIds,
                     lastUpdated |-> t],
     lastRefreshTime |-> t]

\* addPhotoToState, lines 156-182; t is Date.now()
addPhotoToState(state, photo, t) ==
    IF MapHas(state.photoState.byId, photo.id)
    THEN state
    ELSE [photoState |-> [byId        |-> MapSet(state.photoState.byId, photo.id, photo),
                          allIds      |-> <<photo.id>> \o state.photoState.allIds,
                          lastUpdated |-> t],
          lastRefreshTime |-> t]

\* a removal that does not test for the id being present
removePhotoFromState_NoCheck(state, photoId, t) ==
    [photoState |-> [byId        |-> MapDelete(state.photoState.byId, photoId),
                     allIds      |-> SelectSeq(state.photoState.allIds,
                                               LAMBDA id : id # photoId),
                     lastUpdated |-> t],
     lastRefreshTime |-> t]

\* removePhotoFromState, lines 185-210
removePhotoFromState(state, photoId, t) ==
    IF ~MapHas(state.photoState.byId, photoId)
    THEN state
    ELSE [photoState |-> [byId        |-> MapDelete(state.photoState.byId, photoId),
                          allIds      |-> SelectSeq(state.photoState.allIds,
                                                    LAMBDA id : id # photoId),
                          lastUpdated |-> t],
          lastRefreshTime |-> t]

\* updatePhotosFromArray, lines 348-351: newById.set / newAllIds.push per photo
RECURSIVE processPhotos(_, _, _)
processPhotos(photos, newById, newAllIds) ==
    IF photos = << >> THEN [newById |-> newById, newAllIds |-> newAllIds]
    ELSE processPhotos(Tail(photos),
                       MapSet(newById, Head(photos).id, Head(photos)),
                       Append(newAllIds, Head(photos).id))

\* updatePhotosFromArray, lines 358-360
RECURSIVE deleteIds(_, _)
deleteIds(byId, ids) ==
    IF ids = << >> THEN byId ELSE deleteIds(MapDelete(byId, Head(ids)), Tail(ids))

\* a snapshot update that leaves the photos missing from the snapshot in byId
updatePhotosFromArray_NoDelete(state, photos, t) ==
    LET processed == processPhotos(photos, state.photoState.byId, << >>)
    IN [photoState |-> [byId        |-> processed.newById,
                        allIds      |-> processed.newAllIds,
                        lastUpdated |-> t],
        lastRefreshTime |-> t]

\* updatePhotosFromArray, lines 341-371
updatePhotosFromArray(state, photos, t) ==
    LET currentState == state.photoState
        processed    == processPhotos(photos, currentState.byId, << >>)
        newIdSet     == SeqToSet(processed.newAllIds)
        deletedIds   == SelectSeq(currentState.allIds, LAMBDA id : id \notin newIdSet)
    IN [photoState |-> [byId        |-> deleteIds(processed.newById, deletedIds),
                        allIds      |-> processed.newAllIds,
                        lastUpdated |-> t],
        lastRefreshTime |-> t]

\* the ids of an array of photos
IdsOf(photos) == {photos[i].id : i \in 1..Len(photos)}

StoreCallOf(op, photos, present) == [op |-> op, photos |-> photos, present |-> present]

\* the store as constructed
StoreConstructed ==
    /\ photoState = InitialPhotoState
    /\ lastRefreshTime = 0
    /\ now = 1
    /\ storeCall = StoreCallOf("create", << >>, FALSE)

\* time passes
Tick ==
    /\ now < MaxClock
    /\ now' = now + 1
    /\ UNCHANGED <<photoState, lastRefreshTime, storeCall>>
    /\ UNCHANGED <<slotVars, syncVars, cacheVars, clientVars, pageVars>>

ApplyStore(next) ==
    /\ photoState' = next.photoState
    /\ lastRefreshTime' = next.lastRefreshTime

AddPhotoToState(photo) ==
    /\ ApplyStore(addPhotoToState(StoreState, photo, now))
    /\ storeCall' = StoreCallOf("addPhotoToState", <<photo>>,
                                MapHas(photoState.byId, photo.id))
    /\ UNCHANGED now
    /\ UNCHANGED <<slotVars, syncVars, cacheVars, clientVars, pageVars>>

RemovePhotoFromState(photoId) ==
    /\ ApplyStore(removePhotoFromState(StoreState, photoId, now))
    /\ storeCall' = StoreCallOf("removePhotoFromState", <<Photo(photoId, "u1")>>,
                                MapHas(photoState.byId, photoId))
    /\ UNCHANGED now
    /\ UNCHANGED <<slotVars, syncVars, cacheVars, clientVars, pageVars>>

UpdatePhotosFromArray(photos) ==
    /\ ApplyStore(updatePhotosFromArray(StoreState, photos, now))
    /\ storeCall' = StoreCallOf("updatePhotosFromArray", photos,
                                IdsOf(photos) = DOMAIN photoState.byId)
    /\ UNCHANGED now
    /\ UNCHANGED <<slotVars, syncVars, cacheVars, clientVars, pageVars>>

SlotsConstructed ==
    /\ totalSlots = 0
    /\ slotAssignments = EmptyMap
    /\ occupiedSlots = {}
    /\ availableSlots = << >>
    /\ slotCall = SlotCallOf("new", EmptyMap, EmptyMap, {})

(***************************************************************************)
(* C3  CollectionState invariant: allIds contains exactly the keys of      *)
(* byId and contains no id twice.                                          *)
(***************************************************************************)
C3_CollectionInvariant ==
    /\ SeqToSet(photoState.allIds) = DOMAIN photoState.byId
    /\ \A i, j \in 1..Len(photoState.allIds) :
           photoState.allIds[i] = photoState.allIds[j] => i = j

(***************************************************************************)
(* C4  Idempotent insert: addPhotoToState for an id that is present leaves *)
(* byId, allIds, lastUpdated (and lastRefreshTime) unchanged.              *)
(***************************************************************************)
C4_IdempotentInsert ==
    [][( /\ storeCall'.op = "addPhotoToState"
         /\ MapHas(photoState.byId, storeCall'.photos[1].id) )
       => ( /\ photoState' = photoState
            /\ lastRefreshTime' = lastRefreshTime )]_vars

\* a second delivery of an insert, at a later time than the first one
C4_Witness ==
    /\ storeCall.op = "addPhotoToState"
    /\ storeCall.present
    /\ photoState.allIds # << >>
    /\ photoState.allIds[1] = storeCall.photos[1].id
    /\ photoState.lastUpdated < now

(***************************************************************************)
(* C5  Snapshot reconcile result: after updatePhotosFromArray(S) the id    *)
(* set of the state (the keys of byId and the ids in allIds) is exactly    *)
(* the id set of S, whatever the id set was before.                        *)
(***************************************************************************)
C5_SnapshotResult ==
    [][storeCall'.op = "updatePhotosFromArray"
       => ( /\ DOMAIN photoState'.byId = IdsOf(storeCall'.photos)
            /\ SeqToSet(photoState'.allIds) = IdsOf(storeCall'.photos) )]_vars

\* a snapshot that added an id and removed another one while a third stayed
C5_Witness ==
    /\ storeCall.op = "updatePhotosFromArray"
    /\ ~storeCall.present
    /\ Cardinality(IdsOf(storeCall.photos)) = 2
    /\ DOMAIN photoState.byId = IdsOf(storeCall.photos)

(***************************************************************************)
(* Collage store: realtime subscription and polling fallback               *)
(***************************************************************************)
Collages == {"A", "B"}

NoChannel == [n |-> 0, collageId |-> "none"]

NoTimer == "none"

\* the rows other clients insert and delete: photos of collage "A"; collage "B"
\* stays empty
RemoteIds == {"p1", "p2"}

\* the id the server gives to the row of an upload into the collage
NewRowId(collageId) == IF collageId = "A" THEN "p4" ELSE "p3"

\* The public url of the file of an upload, `${collageId}/${nanoid()}.${fileExt}`
\* (part_008 lines 596-597 and 617): nanoid() makes it a url no other row and no
\* texture has.  At most one upload into a collage gets its row, so the collage
\* names the file.
FileUrl(collageId) == collageId \o "/nanoid.jpg"

\* the url of a row of the remote table: that of its file when an upload made it
UrlOfRow(id) ==
    IF \E collageId \in Collages : id = NewRowId(collageId)
    THEN FileUrl(CollageOf(id))
    ELSE "u1"

\* creation order of the rows (created_at): p1 is the oldest
RowRank(id) ==
    CASE id = "p1" -> 1
      [] id = "p2" -> 2
      [] OTHER     -> 3

\* select('*').eq('collage_id', c).order('created_at', { ascending: false })
RECURSIVE RowsDescending(_)
RowsDescending(ids) ==
    IF ids = {} THEN << >>
    ELSE LET newest == CHOOSE x \in ids : \A y \in ids : RowRank(y) <= RowRank(x)
         IN <<Photo(newest, UrlOfRow(newest))>> \o RowsDescending(ids \ {newest})

SelectPhotos(rows, collageId) == RowsDescending({id \in rows : CollageOf(id) = collageId})

\* the sync part of the zustand state that the operations below read and write
SyncState ==
    [photoState          |-> photoState,
     lastRefreshTime     |-> lastRefreshTime,
     realtimeChannel     |-> realtimeChannel,
     isRealtimeConnected |-> isRealtimeConnected,
     pollingInterval     |-> pollingInterval,
     removedChannels     |-> removedChannels,
     pollErrorLogged     |-> pollErrorLogged]

\* stopPolling, lines 331-338
stopPolling(state) ==
    IF state.pollingInterval # NoTimer
    THEN [state EXCEPT !.pollingInterval = NoTimer]
    ELSE state

\* startPolling, lines 288-329 (the interval's callback is PollTick / PollDeliver)
startPolling(state, collageId) ==
    [stopPolling(state) EXCEPT !.pollingInterval = collageId]

\* a cleanup that forgets the channel without handing it to removeChannel
cleanupRealtimeSubscription_NoRemove(state) ==
    stopPolling(IF state.realtimeChannel # NoChannel
                THEN [state EXCEPT !.realtimeChannel = NoChannel,
                                   !.isRealtimeConnected = FALSE]
                ELSE state)

\* cleanupRealtimeSubscription, lines 277-285
cleanupRealtimeSubscription(state) ==
    stopPolling(IF state.realtimeChannel # NoChannel
                THEN [state EXCEPT !.removedChannels =
                                       state.removedChannels \cup {state.realtimeChannel.n},
                                   !.realtimeChannel = NoChannel,
                                   !.isRealtimeConnected = FALSE]
                ELSE state)

\* a SUBSCRIBED handler that leaves the poll timer running
onStatus_KeepPolling(state, status, collageId) ==
    CASE status = "SUBSCRIBED" -> [state EXCEPT !.isRealtimeConnected = TRUE]
      [] status \in {"CHANNEL_ERROR", "TIMED_OUT"} ->
            startPolling([state EXCEPT !.isRealtimeConnected = FALSE], collageId)
      [] status = "CLOSED" -> [state EXCEPT !.isRealtimeConnected = FALSE]
      [] OTHER -> state

\* the subscribe callback, lines 247-263; collageId is the callback's closure
onStatus(state, status, collageId) ==
    CASE status = "SUBSCRIBED" ->
            stopPolling([state EXCEPT !.isRealtimeConnected = TRUE])
      [] status \in {"CHANNEL_ERROR", "TIMED_OUT"} ->
            startPolling([state EXCEPT !.isRealtimeConnected = FALSE], collageId)
      [] status = "CLOSED" -> [state EXCEPT !.isRealtimeConnected = FALSE]
      [] OTHER -> state

\* the setTimeout callback, lines 268-273
onDeadline(state, collageId) ==
    IF ~state.isRealtimeConnected THEN startPolling(state, collageId) ELSE state

\* the postgres_changes callback, lines 229-245
onPayload(state, payload, t) ==
    LET photoPart == [photoState |-> state.photoState,
                      lastRefreshTime |-> state.lastRefreshTime]
        next == CASE payload.eventType = "INSERT" -> addPhotoToState(photoPart, payload.row, t)
                  [] payload.eventType = "DELETE" ->
                        removePhotoFromState(photoPart, payload.row.id, t)
                  [] payload.eventType = "UPDATE" -> addPhotoToState(photoPart, payload.row, t)
                  [] OTHER -> photoPart
    IN [state EXCEPT !.photoState = next.photoState,
                     !.lastRefreshTime = next.lastRefreshTime]

\* the postgres_changes callback run for each payload of an array, in its order
RECURSIVE deliverAll(_, _, _)
deliverAll(state, payloads, t) ==
    IF payloads = << >> THEN state
    ELSE deliverAll(onPayload(state, Head(payloads), t), Tail(payloads), t)

\* the feed hands a payload to the postgres_changes callback
PayloadArrives(eventType, photo) ==
    /\ ApplyStore(onPayload(StoreState, [eventType |-> eventType, row |-> photo], now))
    /\ storeCall' = StoreCallOf(eventType, <<photo>>, MapHas(photoState.byId, photo.id))
    /\ UNCHANGED now
    /\ UNCHANGED <<slotVars, syncVars, cacheVars, clientVars, pageVars>>

\* a change test that compares the lengths only
pollDetectsChange_LengthOnly(currentIds, newIds) == Len(currentIds) # Len(newIds)

\* a change test that compares the two id arrays element by element
pollDetectsChange_Ordered(currentIds, newIds) == currentIds # newIds

\* the change test of the poll callback, lines 304-322
pollDetectsChange(currentIds, newIds) ==
    IF Len(currentIds) # Len(newIds)
    THEN TRUE
    ELSE \E i \in 1..Len(newIds) : newIds[i] \notin SeqToSet(currentIds)

\* an interval callback that empties the store and gives up when its fetch fails
onPollResult_ClearOnError(state, response, t) ==
    IF ~response.ok
    THEN [stopPolling(state) EXCEPT !.photoState = InitialPhotoState,
                                    !.pollErrorLogged = TRUE]
    ELSE LET currentIds == state.photoState.allIds
             newIds     == [i \in 1..Len(response.data) |-> response.data[i].id]
         IN IF pollDetectsChange(currentIds, newIds)
            THEN LET next == updatePhotosFromArray(
                                 [photoState |-> state.photoState,
                                  lastRefreshTime |-> state.lastRefreshTime],
                                 response.data, t)
                 IN [state EXCEPT !.photoState = next.photoState,
                                  !.lastRefreshTime = next.lastRefreshTime]
            ELSE state

\* the interval callback after its fetch has returned, lines 301-325
onPollResult(state, response, t) ==
    IF ~response.ok
    THEN [state EXCEPT !.pollErrorLogged = TRUE]
    ELSE LET currentIds == state.photoState.allIds
             newIds     == [i \in 1..Len(response.data) |-> response.data[i].id]
         IN IF pollDetectsChange(currentIds, newIds)
            THEN LET next == updatePhotosFromArray(
                                 [photoState |-> state.photoState,
                                  lastRefreshTime |-> state.lastRefreshTime],
                                 response.data, t)
                 IN [state EXCEPT !.photoState = next.photoState,
                                  !.lastRefreshTime = next.lastRefreshTime]
            ELSE state

ApplySync(next) ==
    /\ photoState' = next.photoState
    /\ lastRefreshTime' = next.lastRefreshTime
    /\ realtimeChannel' = next.realtimeChannel
    /\ isRealtimeConnected' = next.isRealtimeConnected
    /\ pollingInterval' = next.pollingInterval
    /\ removedChannels' = next.removedChannels
    /\ pollErrorLogged' = next.pollErrorLogged

\* fetchCollageById / fetchCollageByCode is suspended at `await
\* get().fetchPhotosByCollageId(id)` (lines 463 and 498) and that promise has
\* resolved or rejected: the call resumes in a microtask, before any timer,
\* channel callback, render or other task runs
ContinuationDue ==
    \E n \in 1..Len(connects) : connects[n].stage \in {"subscribing", "rethrown"}

\* the store's session fields as constructed (lines 150-153), nothing in flight
SyncConstructed ==
    /\ realtimeChannel = NoChannel
    /\ isRealtimeConnected = FALSE
    /\ pollingInterval = NoTimer
    /\ channelsCreated = 0
    /\ removedChannels = {}
    /\ pollErrorLogged = FALSE
    /\ chanState = "none"
    /\ confirmed = FALSE
    /\ staleClosed = FALSE
    /\ deadlines = << >>
    /\ polls = << >>
    /\ events = << >>
    /\ remote = {}
    /\ remoteFrozen = FALSE

\* the body of setupRealtimeSubscription(collageId), lines 213-274, run on state
SubscribeFrom(state, collageId) ==
    /\ channelsCreated < MaxChannels
    /\ LET channel == [n |-> channelsCreated + 1, collageId |-> collageId]
           cleaned == cleanupRealtimeSubscription(state)
       IN /\ ApplySync([cleaned EXCEPT !.realtimeChannel = channel])
          /\ channelsCreated' = channelsCreated + 1
          /\ chanState' = "joining"
          /\ confirmed' = FALSE
          /\ staleClosed' = (staleClosed \/ realtimeChannel # NoChannel)
          /\ deadlines' = Append(deadlines, channel)
          /\ events' = << >>

\* setupRealtimeSubscription(collageId), lines 213-274
SetupRealtimeSubscription(collageId) ==
    /\ ~ContinuationDue
    /\ SubscribeFrom(SyncState, collageId)
    /\ UNCHANGED <<polls, remote, remoteFrozen>>
    /\ UNCHANGED <<slotVars, now, storeCall, cacheVars, clientVars, pageVars>>

\* cleanupRealtimeSubscription() called by the hook's effect cleanup
CleanupRealtimeSubscription ==
    /\ ~ContinuationDue
    /\ ApplySync(cleanupRealtimeSubscription(SyncState))
    /\ chanState' = "none"
    /\ confirmed' = FALSE
    /\ staleClosed' = (staleClosed \/ realtimeChannel # NoChannel)
    /\ events' = << >>
    /\ UNCHANGED <<channelsCreated, deadlines, polls, remote, remoteFrozen>>
    /\ UNCHANGED <<slotVars, now, storeCall, cacheVars, clientVars, pageVars>>

\* the feed states in which the held channel can report a status
CanReport(status) ==
    CASE status = "SUBSCRIBED"    -> chanState \in {"joining", "errored"}
      [] status = "TIMED_OUT"     -> chanState \in {"joining", "errored"}
      [] status = "CHANNEL_ERROR" -> chanState \in {"joining", "joined", "errored"}
      [] OTHER                    -> chanState \in {"joining", "joined", "errored"}

FeedStateAfter(status) ==
    CASE status = "SUBSCRIBED" -> "joined"
      [] status = "CLOSED"     -> "closed"
      [] OTHER                 -> "errored"

\* the held channel reports a status to the subscribe callback
ChannelStatus(status) ==
    /\ ~ContinuationDue
    /\ realtimeChannel # NoChannel
    /\ CanReport(status)
    /\ ApplySync(onStatus(SyncState, status, realtimeChannel.collageId))
    /\ chanState' = FeedStateAfter(status)
    /\ confirmed' = (confirmed \/ status = "SUBSCRIBED")
    /\ UNCHANGED <<channelsCreated, staleClosed, deadlines, polls, events, remote,
                   remoteFrozen>>
    /\ UNCHANGED <<slotVars, now, storeCall, cacheVars, clientVars, pageVars>>

\* a channel released by removeChannel reports CLOSED to its subscribe callback
ReleasedChannelClosed ==
    /\ ~ContinuationDue
    /\ staleClosed
    /\ staleClosed' = FALSE
    /\ ApplySync(onStatus(SyncState, "CLOSED", "none"))
    /\ UNCHANGED <<channelsCreated, chanState, confirmed, deadlines, polls, events,
                   remote, remoteFrozen>>
    /\ UNCHANGED <<slotVars, now, storeCall, cacheVars, clientVars, pageVars>>

\* the oldest pending 5 s timer fires
DeadlineFires ==
    /\ ~ContinuationDue
    /\ deadlines # << >>
    /\ ApplySync(onDeadline(SyncState, Head(deadlines).collageId))
    /\ deadlines' = Tail(deadlines)
    /\ UNCHANGED <<channelsCreated, chanState, confirmed, staleClosed, polls, events,
                   remote, remoteFrozen>>
    /\ UNCHANGED <<slotVars, now, storeCall, cacheVars, clientVars, pageVars>>

\* the poll interval fires: the callback sends its fetch (lines 295-299) and is
\* suspended; the server will answer with the rows it holds
PollTickOk ==
    /\ ~ContinuationDue
    /\ pollingInterval # NoTimer
    /\ Len(polls) < MaxInFlight
    /\ polls' = Append(polls,
                       [collageId |-> pollingInterval,
                        ok        |-> TRUE,
                        data      |-> SelectPhotos(remote, pollingInterval)])
    /\ UNCHANGED <<photoState, lastRefreshTime, realtimeChannel, isRealtimeConnected,
                   pollingInterval, channelsCreated, removedChannels, pollErrorLogged,
                   chanState, confirmed, staleClosed,
                   deadlines, events, remote, remoteFrozen>>
    /\ UNCHANGED <<slotVars, now, storeCall, cacheVars, clientVars, pageVars>>

\* the poll interval fires: the callback sends its fetch (lines 295-299) and is
\* suspended; the fetch will fail
PollTickFails ==
    /\ ~ContinuationDue
    /\ pollingInterval # NoTimer
    /\ Len(polls) < MaxInFlight
    /\ polls' = Append(polls,
                       [collageId |-> pollingInterval, ok |-> FALSE, data |-> << >>])
    /\ UNCHANGED <<photoState, lastRefreshTime, realtimeChannel, isRealtimeConnected,
                   pollingInterval, channelsCreated, removedChannels, pollErrorLogged,
                   chanState, confirmed, staleClosed,
                   deadlines, events, remote, remoteFrozen>>
    /\ UNCHANGED <<slotVars, now, storeCall, cacheVars, clientVars, pageVars>>

\* The interval callback resumes after its await with an answer of the server,
\* whatever rows the answer holds (lines 301-325); the call is recorded in
\* storeCall.
PollAnswers(response) ==
    /\ ApplySync(onPollResult(SyncState, response, now))
    /\ storeCall' = StoreCallOf(IF response.ok THEN "poll" ELSE "poll failed",
                                response.data,
                                IdsOf(response.data) = DOMAIN photoState.byId)
    /\ UNCHANGED <<channelsCreated, chanState, confirmed, staleClosed, deadlines, polls,
                   events, remote, remoteFrozen>>
    /\ UNCHANGED <<slotVars, now, cacheVars, clientVars, pageVars>>

\* the answer of a poll fetch, rows or error, reaches the suspended interval
\* callback, which resumes (lines 301-325)
PollDeliver ==
    \E i \in 1..Len(polls) :
        /\ ApplySync(onPollResult(SyncState, polls[i], now))
        /\ polls' = SubSeq(polls, 1, i - 1) \o SubSeq(polls, i + 1, Len(polls))
        /\ UNCHANGED <<channelsCreated, chanState, confirmed, staleClosed, deadlines,
                       events, remote, remoteFrozen>>
        /\ UNCHANGED <<slotVars, now, storeCall, cacheVars, clientVars, pageVars>>

\* the payload the feed sends for a change of a row, if the held channel is joined
\* to that row's collage
FeedSends(eventType, id) ==
    IF realtimeChannel # NoChannel /\ chanState = "joined"
       /\ realtimeChannel.collageId = CollageOf(id)
    THEN <<[eventType |-> eventType, row |-> Photo(id, UrlOfRow(id))]>>
    ELSE << >>

\* another client inserts, deletes or rewrites a row of the remote table
RemoteChange(eventType, id) ==
    /\ ~remoteFrozen
    /\ Len(events \o FeedSends(eventType, id)) <= MaxEvents
    /\ CASE eventType = "INSERT" -> id \notin remote /\ remote' = remote \cup {id}
         [] eventType = "DELETE" -> id \in remote /\ remote' = remote \ {id}
         [] OTHER                -> id \in remote /\ remote' = remote
    /\ events' = events \o FeedSends(eventType, id)
    /\ UNCHANGED <<photoState, lastRefreshTime, realtimeChannel, isRealtimeConnected,
                   pollingInterval, channelsCreated, removedChannels, pollErrorLogged,
                   chanState, confirmed, staleClosed,
                   deadlines, polls, remoteFrozen>>
    /\ UNCHANGED <<slotVars, now, storeCall, cacheVars, clientVars, pageVars>>

\* from here on the remote table stays as it is
RemoteFreezes ==
    /\ ~remoteFrozen
    /\ remoteFrozen' = TRUE
    /\ UNCHANGED <<photoState, lastRefreshTime, realtimeChannel, isRealtimeConnected,
                   pollingInterval, channelsCreated, removedChannels, pollErrorLogged,
                   chanState, confirmed, staleClosed,
                   deadlines, polls, events, remote>>
    /\ UNCHANGED <<slotVars, now, storeCall, cacheVars, clientVars, pageVars>>

\* the oldest payload reaches the postgres_changes callback
EventDeliver ==
    /\ ~ContinuationDue
    /\ events # << >>
    /\ ApplySync(onPayload(SyncState, Head(events), now))
    /\ events' = Tail(events)
    /\ UNCHANGED <<channelsCreated, chanState, confirmed, staleClosed, deadlines, polls,
                   remote, remoteFrozen>>
    /\ UNCHANGED <<slotVars, now, storeCall, cacheVars, clientVars, pageVars>>

\* the steps of a session whose poll fetches all succeed
SyncNextFetchesSucceed ==
    \/ \E collageId \in Collages : SetupRealtimeSubscription(collageId)
    \/ CleanupRealtimeSubscription
    \/ \E status \in {"SUBSCRIBED", "CHANNEL_ERROR", "TIMED_OUT", "CLOSED"} :
           ChannelStatus(status)
    \/ ReleasedChannelClosed
    \/ DeadlineFires
    \/ PollTickOk
    \/ PollDeliver
    \/ \E eventType \in {"INSERT", "DELETE", "UPDATE"}, id \in RemoteIds :
           RemoteChange(eventType, id)
    \/ RemoteFreezes
    \/ EventDeliver

SyncNext ==
    \/ SyncNextFetchesSucceed
    \/ PollTickFails

(***************************************************************************)
(* Collage store: connecting to a collage (fetchCollageById / ByCode)      *)
(***************************************************************************)
\* no client operation has been called
ClientConstructed ==
    /\ currentCollage = "none"
    /\ connects = << >>
    /\ deletes = << >>
    /\ uploads = << >>

\* fetchPhotosByCollageId after its fetch has returned, lines 408-419: on an error
\* the function throws and the state stays
onPhotosFetched(state, response, t) ==
    IF ~response.ok
    THEN state
    ELSE LET next == updatePhotosFromArray(
                         [photoState |-> state.photoState,
                          lastRefreshTime |-> state.lastRefreshTime],
                         response.data, t)
         IN [state EXCEPT !.photoState = next.photoState,
                          !.lastRefreshTime = t]

\* refreshPhotos after its fetch has returned, lines 383-395: on an error the
\* function throws and the photos stay
onPhotosRefreshed(state, response, t) ==
    IF ~response.ok
    THEN state
    ELSE LET next == updatePhotosFromArray(
                         [photoState |-> state.photoState,
                          lastRefreshTime |-> state.lastRefreshTime],
                         response.data, t)
         IN [state EXCEPT !.photoState = next.photoState,
                          !.lastRefreshTime = next.lastRefreshTime]

\* a call as it starts: its request has been sent
CallOf(id, stage) == [id |-> id, stage |-> stage, turn |-> 0]

\* the hook calls fetchCollageById(id) or fetchCollageByCode(code of id): the
\* request for the collage row is sent, lines 473-482
FetchCollageById(id) ==
    /\ ~ContinuationDue
    /\ Len(connects) < MaxConnects
    /\ connects' = Append(connects, CallOf(id, "collage"))
    /\ UNCHANGED <<currentCollage, deletes, uploads, pageVars>>
    /\ UNCHANGED <<slotVars, storeVars, syncVars, cacheVars>>

\* the collage row has been answered, lines 476-484: on an error the catch
\* returns null, otherwise the request for the collage's settings is sent
CollageRowArrives(ok) ==
    \E n \in 1..Len(connects) :
        /\ connects[n].stage = "collage"
        /\ connects' = [connects EXCEPT ![n].stage = IF ok THEN "settings"
                                                        ELSE "returned null"]
        /\ UNCHANGED <<currentCollage, deletes, uploads, pageVars>>
        /\ UNCHANGED <<slotVars, storeVars, syncVars, cacheVars>>

\* the settings request has been answered, lines 484-498: its error is not read
\* (missing settings become the defaults); currentCollage is set and
\* fetchPhotosByCollageId sends the photos request
SettingsArrive ==
    \E n \in 1..Len(connects) :
        /\ connects[n].stage = "settings"
        /\ currentCollage' = connects[n].id
        /\ connects' = [connects EXCEPT ![n].stage = "photos"]
        /\ UNCHANGED <<deletes, uploads, pageVars>>
        /\ UNCHANGED <<slotVars, storeVars, syncVars, cacheVars>>

\* the calls that wait to resume after their photos: with the snapshot applied,
\* or with the error thrown on by the catch of fetchPhotosByCollageId
Subscribing == {n \in 1..Len(connects) : connects[n].stage = "subscribing"}

Resuming == {n \in 1..Len(connects) : connects[n].stage \in {"subscribing", "rethrown"}}

\* the turn of the call that resumes last
LastTurn == IF Resuming = {} THEN 0
            ELSE CHOOSE t \in {connects[n].turn : n \in Resuming} :
                     \A n \in Resuming : connects[n].turn <= t

\* the photos of the collage have been answered inside fetchPhotosByCollageId,
\* lines 408-420: the snapshot is applied and the promise fetchCollageById awaits
\* resolves, or the catch of lines 416-420 throws the error on and the promise
\* rejects
PhotosArrive(ok) ==
    \E n \in 1..Len(connects) :
        /\ connects[n].stage = "photos"
        /\ LET id       == connects[n].id
               response == [ok |-> ok, data |-> SelectPhotos(remote, id)]
           IN IF ok
              THEN /\ channelsCreated + Cardinality(Subscribing) < MaxChannels
                   /\ ApplySync(onPhotosFetched(SyncState, response, now))
                   /\ connects' = [connects EXCEPT ![n].stage = "subscribing",
                                                   ![n].turn = LastTurn + 1]
              ELSE /\ connects' = [connects EXCEPT ![n].stage = "rethrown",
                                                   ![n].turn = LastTurn + 1]
                   /\ UNCHANGED <<photoState, lastRefreshTime, realtimeChannel,
                                  isRealtimeConnected, pollingInterval,
                                  removedChannels, pollErrorLogged>>
        /\ UNCHANGED <<channelsCreated, chanState, confirmed, staleClosed, deadlines,
                       events, polls, remote, remoteFrozen>>
        /\ UNCHANGED <<currentCollage, deletes, uploads, pageVars>>
        /\ UNCHANGED <<slotVars, now, storeCall, cacheVars>>

\* fetchCollageById resumes after its await, lines 498-501: the call whose photos
\* were applied first sets up the subscription and returns the collage
SubscribeAfterPhotos ==
    \E n \in Subscribing :
        /\ \A m \in Resuming : connects[n].turn <= connects[m].turn
        /\ SubscribeFrom(SyncState, connects[n].id)
        /\ connects' = [connects EXCEPT ![n].stage = "returned collage", ![n].turn = 0]
        /\ UNCHANGED <<polls, remote, remoteFrozen>>
        /\ UNCHANGED <<currentCollage, deletes, uploads, pageVars>>
        /\ UNCHANGED <<slotVars, now, storeCall, cacheVars>>

\* fetchCollageById resumes with the error of its photos, lines 502-505: the call
\* whose turn it is sets the error and returns null
ReturnNullAfterPhotos ==
    \E n \in Resuming :
        /\ connects[n].stage = "rethrown"
        /\ \A m \in Resuming : connects[n].turn <= connects[m].turn
        /\ connects' = [connects EXCEPT ![n].stage = "returned null", ![n].turn = 0]
        /\ UNCHANGED <<currentCollage, deletes, uploads, pageVars>>
        /\ UNCHANGED <<slotVars, storeVars, syncVars, cacheVars>>

\* refreshPhotos(collageId) is called, lines 373-381: its request is sent
RefreshPhotos(collageId) ==
    /\ ~ContinuationDue
    /\ Len(connects) < MaxConnects
    /\ connects' = Append(connects, CallOf(collageId, "refreshPhotos"))
    /\ UNCHANGED <<currentCollage, deletes, uploads, pageVars>>
    /\ UNCHANGED <<slotVars, storeVars, syncVars, cacheVars>>

\* fetchPhotosByCollageId(collageId) is called on its own, lines 398-406: its
\* request is sent
FetchPhotosByCollageId(collageId) ==
    /\ ~ContinuationDue
    /\ Len(connects) < MaxConnects
    /\ connects' = Append(connects, CallOf(collageId, "fetchPhotosByCollageId"))
    /\ UNCHANGED <<currentCollage, deletes, uploads, pageVars>>
    /\ UNCHANGED <<slotVars, storeVars, syncVars, cacheVars>>

\* the request of a refreshPhotos or of a lone fetchPhotosByCollageId call is
\* answered: the snapshot is applied and the promise resolves, or it rejects
PhotosRequestAnswers(ok) ==
    \E n \in 1..Len(connects) :
        /\ connects[n].stage \in {"refreshPhotos", "fetchPhotosByCollageId"}
        /\ LET response == [ok |-> ok, data |-> SelectPhotos(remote, connects[n].id)]
           IN ApplySync(IF connects[n].stage = "refreshPhotos"
                        THEN onPhotosRefreshed(SyncState, response, now)
                        ELSE onPhotosFetched(SyncState, response, now))
        /\ connects' = [connects EXCEPT ![n].stage = IF ok THEN "resolved" ELSE "rejected"]
        /\ UNCHANGED <<channelsCreated, chanState, confirmed, staleClosed, deadlines,
                       events, polls, remote, remoteFrozen>>
        /\ UNCHANGED <<currentCollage, deletes, uploads, pageVars>>
        /\ UNCHANGED <<slotVars, now, storeCall, cacheVars>>

ConnectNext ==
    \/ \E id \in Collages : FetchCollageById(id)
    \/ \E ok \in BOOLEAN : CollageRowArrives(ok)
    \/ SettingsArrive
    \/ \E ok \in BOOLEAN : PhotosArrive(ok)
    \/ SubscribeAfterPhotos
    \/ ReturnNullAfterPhotos
    \/ \E collageId \in Collages : RefreshPhotos(collageId)
    \/ \E collageId \in Collages : FetchPhotosByCollageId(collageId)
    \/ \E ok \in BOOLEAN : PhotosRequestAnswers(ok)
    \/ CleanupRealtimeSubscription
    \/ \E status \in {"SUBSCRIBED", "CHANNEL_ERROR", "TIMED_OUT", "CLOSED"} :
           ChannelStatus(status)
    \/ ReleasedChannelClosed
    \/ DeadlineFires
    \/ PollTickOk
    \/ PollTickFails
    \/ PollDeliver
    \/ \E eventType \in {"INSERT", "DELETE", "UPDATE"}, id \in RemoteIds :
           RemoteChange(eventType, id)
    \/ EventDeliver

(***************************************************************************)
(* TextureCache (lib/textureCache.ts)                                      *)
(***************************************************************************)
Urls == {"u1", "u2"}

\* the promise of a new load of url: its executor closes over url, and until it
\* settles it carries no texture
Pending(url) == [url |-> url, status |-> "pending", texture |-> 0]

\* the fields of the TextureCache object and of the loads it started
CacheState ==
    [cache           |-> cache,
     loadingPromises |-> loadingPromises,
     promises        |-> promises,
     loads           |-> loads,
     disposed        |-> disposed]

\* the cache has url, as a loaded texture or as a load in progress
HasEntry(url) == MapHas(cache, url) \/ MapHas(loadingPromises, url)

\* what getTexture hands to its caller: a promise made by Promise.resolve(texture)
\* or one of the numbered load promises
ResolvedWith(texture) == [kind |-> "Promise.resolve", ref |-> texture]

LoadPromise(p) == [kind |-> "loadPromise", ref |-> p]

\* a getTexture that does not look at loadingPromises
getTexture_NoDedup(state, url) ==
    IF MapHas(state.cache, url)
    THEN [state |-> state, returned |-> ResolvedWith(state.cache[url]),
          startedLoad |-> FALSE]
    ELSE LET p == Len(state.promises) + 1
         IN [state |-> [state EXCEPT
                           !.promises = Append(state.promises, Pending(url)),
                           !.loads = state.loads \cup {[url |-> url, promise |-> p]},
                           !.loadingPromises = MapSet(state.loadingPromises, url, p)],
             returned |-> LoadPromise(p),
             startedLoad |-> TRUE]

\* getTexture, lines 8-52: the new state, the returned promise, whether
\* loader.load was called
getTexture(state, url) ==
    IF MapHas(state.cache, url)
    THEN [state |-> state, returned |-> ResolvedWith(state.cache[url]),
          startedLoad |-> FALSE]
    ELSE IF MapHas(state.loadingPromises, url)
    THEN [state |-> state, returned |-> LoadPromise(state.loadingPromises[url]),
          startedLoad |-> FALSE]
    ELSE LET p == Len(state.promises) + 1
         IN [state |-> [state EXCEPT
                           !.promises = Append(state.promises, Pending(url)),
                           !.loads = state.loads \cup {[url |-> url, promise |-> p]},
                           !.loadingPromises = MapSet(state.loadingPromises, url, p)],
             returned |-> LoadPromise(p),
             startedLoad |-> TRUE]

\* an onLoad callback that caches the texture and leaves the load's entry in place
onLoad_KeepPending(state, url, p) ==
    [state EXCEPT !.cache = MapSet(state.cache, url, p),
                  !.promises[p].status = "resolved",
                  !.promises[p].texture = p,
                  !.loads = state.loads \ {[url |-> url, promise |-> p]}]

\* the onLoad callback of load p, lines 26-39; the loader hands it a new texture,
\* numbered after the load
onLoad(state, url, p) ==
    [state EXCEPT !.cache = MapSet(state.cache, url, p),
                  !.loadingPromises = MapDelete(state.loadingPromises, url),
                  !.promises[p].status = "resolved",
                  !.promises[p].texture = p,
                  !.loads = state.loads \ {[url |-> url, promise |-> p]}]

\* an onError callback that leaves the entry of the failed load in place
onError_KeepEntry(state, url, p) ==
    [state EXCEPT !.promises[p].status = "rejected",
                  !.loads = state.loads \ {[url |-> url, promise |-> p]}]

\* the onError callback of load p, lines 41-45
onError(state, url, p) ==
    [state EXCEPT !.loadingPromises = MapDelete(state.loadingPromises, url),
                  !.promises[p].status = "rejected",
                  !.loads = state.loads \ {[url |-> url, promise |-> p]}]

\* dispose, lines 54-60
dispose(state, url) ==
    IF MapHas(state.cache, url)
    THEN [state EXCEPT !.disposed = state.disposed \cup {state.cache[url]},
                       !.cache = MapDelete(state.cache, url)]
    ELSE state

\* clear, lines 62-66
clear(state) ==
    [state EXCEPT !.disposed = state.disposed \cup MapValues(state.cache),
                  !.cache = EmptyMap,
                  !.loadingPromises = EmptyMap]

ApplyCache(next) ==
    /\ cache' = next.cache
    /\ loadingPromises' = next.loadingPromises
    /\ promises' = next.promises
    /\ loads' = next.loads
    /\ disposed' = next.disposed

\* history of one call or callback
CacheCallOf(op, url, returned, startedLoad) ==
    [op |-> op, url |-> url, returned |-> returned, startedLoad |-> startedLoad]

\* the singleton as constructed, lines 5-6 and 79
CacheConstructed ==
    /\ cache = EmptyMap
    /\ loadingPromises = EmptyMap
    /\ promises = << >>
    /\ loads = {}
    /\ disposed = {}
    /\ cacheCall = CacheCallOf("new", "none", LoadPromise(0), FALSE)

GetTexture(url) ==
    LET call == getTexture(CacheState, url)
    IN /\ Len(call.state.promises) <= MaxLoads
       /\ ApplyCache(call.state)
       /\ cacheCall' = CacheCallOf("getTexture", url, call.returned, call.startedLoad)
       /\ UNCHANGED <<slotVars, storeVars, syncVars, clientVars, pageVars>>

\* the loader calls onLoad for one of the loads in flight
LoadSucceeds ==
    \E load \in loads :
        /\ ApplyCache(onLoad(CacheState, load.url, load.promise))
        /\ cacheCall' = CacheCallOf("onLoad", load.url, LoadPromise(load.promise), FALSE)
        /\ UNCHANGED <<slotVars, storeVars, syncVars, clientVars, pageVars>>

\* the loader calls onError for one of the loads in flight
LoadFails ==
    \E load \in loads :
        /\ ApplyCache(onError(CacheState, load.url, load.promise))
        /\ cacheCall' = CacheCallOf("onError", load.url, LoadPromise(load.promise), FALSE)
        /\ UNCHANGED <<slotVars, storeVars, syncVars, clientVars, pageVars>>

Dispose(url) ==
    /\ ApplyCache(dispose(CacheState, url))
    /\ cacheCall' = CacheCallOf("dispose", url, LoadPromise(0), FALSE)
    /\ UNCHANGED <<slotVars, storeVars, syncVars, clientVars, pageVars>>

Clear ==
    /\ ApplyCache(clear(CacheState))
    /\ cacheCall' = CacheCallOf("clear", "none", LoadPromise(0), FALSE)
    /\ UNCHANGED <<slotVars, storeVars, syncVars, clientVars, pageVars>>

CacheNext ==
    \/ \E url \in Urls : GetTexture(url)
    \/ LoadSucceeds
    \/ LoadFails
    \/ \E url \in Urls : Dispose(url)
    \/ Clear

(***************************************************************************)
(* Collage store: deletePhoto and uploadPhoto                              *)
(***************************************************************************)
\* a deletePhoto that puts the photo back into the state when the deletion fails
deletePhotoResume_Rollback(state, call, answer, t) ==
    IF call.stage = "select"
    THEN IF answer = "ok" THEN [state |-> state, stage |-> "storage"]
         ELSE IF answer = "PGRST116" THEN [state |-> state, stage |-> "resolved"]
         ELSE [state |-> addPhotoToState(state, Photo(call.id, "u1"), t),
               stage |-> "rejected"]
    ELSE IF call.stage = "storage"
    THEN [state |-> state, stage |-> "delete"]
    ELSE IF answer = "ok" THEN [state |-> state, stage |-> "resolved"]
         ELSE [state |-> addPhotoToState(state, Photo(call.id, "u1"), t),
               stage |-> "rejected"]

\* deletePhoto from one of its awaits on, lines 665-714: the store state it leaves
\* and where the call is next.  The select's error is thrown unless its code is
\* PGRST116, which returns; the storage error is only warned about; the error of
\* the row's delete is thrown; the catch logs and throws again.
deletePhotoResume(state, call, answer, t) ==
    IF call.stage = "select"
    THEN IF answer = "ok" THEN [state |-> state, stage |-> "storage"]
         ELSE IF answer = "PGRST116" THEN [state |-> state, stage |-> "resolved"]
         ELSE [state |-> state, stage |-> "rejected"]
    ELSE IF call.stage = "storage"
    THEN [state |-> state, stage |-> "delete"]
    ELSE IF answer = "ok" THEN [state |-> state, stage |-> "resolved"]
         ELSE [state |-> state, stage |-> "rejected"]

\* deletePhoto(photoId) up to its first await, lines 651-663
DeletePhoto(photoId) ==
    /\ ~ContinuationDue
    /\ Len(deletes) < MaxDeletes
    /\ ApplyStore(removePhotoFromState(StoreState, photoId, now))
    /\ storeCall' = StoreCallOf("removePhotoFromState", <<Photo(photoId, "u1")>>,
                                MapHas(photoState.byId, photoId))
    /\ deletes' = Append(deletes, [id |-> photoId, stage |-> "select"])
    /\ UNCHANGED <<now, currentCollage, connects, uploads, pageVars>>
    /\ UNCHANGED <<slotVars, syncVars, cacheVars>>

\* the select of the photo's url is answered, lines 659-674: "ok" with the row,
\* "PGRST116" when the table has no such row, "error" otherwise
DeleteSelectArrives(answer) ==
    \E n \in 1..Len(deletes) :
        /\ deletes[n].stage = "select"
        /\ answer = "ok" => deletes[n].id \in remote
        /\ answer = "PGRST116" => deletes[n].id \notin remote
        /\ LET next == deletePhotoResume(StoreState, deletes[n], answer, now)
           IN /\ ApplyStore(next.state)
              /\ deletes' = [deletes EXCEPT ![n].stage = next.stage]
        /\ UNCHANGED <<now, storeCall, currentCollage, connects, uploads, pageVars>>
        /\ UNCHANGED <<slotVars, syncVars, cacheVars>>

\* the removal of the file from the storage is answered, lines 684-691
DeleteStorageArrives(answer) ==
    \E n \in 1..Len(deletes) :
        /\ deletes[n].stage = "storage"
        /\ LET next == deletePhotoResume(StoreState, deletes[n], answer, now)
           IN /\ ApplyStore(next.state)
              /\ deletes' = [deletes EXCEPT ![n].stage = next.stage]
        /\ UNCHANGED <<now, storeCall, currentCollage, connects, uploads, pageVars>>
        /\ UNCHANGED <<slotVars, syncVars, cacheVars>>

\* the delete of the row is answered, lines 694-710: with "ok" the server has
\* removed the row and tells the subscribers, and the texture is disposed
DeleteRowArrives(answer) ==
    \E n \in 1..Len(deletes) :
        /\ deletes[n].stage = "delete"
        /\ LET id   == deletes[n].id
               next == deletePhotoResume(StoreState, deletes[n], answer, now)
               sent == IF id \in remote THEN FeedSends("DELETE", id) ELSE << >>
           IN /\ ApplyStore(next.state)
              /\ deletes' = [deletes EXCEPT ![n].stage = next.stage]
              /\ IF answer = "ok"
                 THEN /\ Len(events \o sent) <= MaxEvents
                      /\ remote' = remote \ {id}
                      /\ events' = events \o sent
                      /\ ApplyCache(dispose(CacheState, "u1"))
                      /\ cacheCall' = CacheCallOf("dispose", "u1", LoadPromise(0), FALSE)
                 ELSE UNCHANGED <<remote, events, cacheVars>>
        /\ UNCHANGED <<realtimeChannel, isRealtimeConnected, pollingInterval,
                       channelsCreated, removedChannels, pollErrorLogged, chanState,
                       confirmed, staleClosed, deadlines, polls, remoteFrozen>>
        /\ UNCHANGED <<now, storeCall, currentCollage, connects, uploads, pageVars>>
        /\ UNCHANGED slotVars

\* uploadPhoto(collageId, file) up to its first await, lines 580-607; valid tells
\* whether the file passes the size and type checks
UploadPhoto(collageId, valid) ==
    /\ ~ContinuationDue
    /\ Len(uploads) < MaxUploads
    /\ uploads' = Append(uploads, [collageId |-> collageId,
                                   stage |-> IF valid THEN "storage" ELSE "rejected"])
    /\ UNCHANGED <<currentCollage, connects, deletes, pageVars>>
    /\ UNCHANGED <<slotVars, storeVars, syncVars, cacheVars>>

\* the upload of the file to the storage is answered, lines 602-618
UploadStorageArrives(ok) ==
    \E n \in 1..Len(uploads) :
        /\ uploads[n].stage = "storage"
        /\ uploads' = [uploads EXCEPT ![n].stage = IF ok THEN "insert" ELSE "rejected"]
        /\ UNCHANGED <<currentCollage, connects, deletes, pageVars>>
        /\ UNCHANGED <<slotVars, storeVars, syncVars, cacheVars>>

\* the insert of the row is answered, lines 621-643: with ok the server has
\* created the row and tells the subscribers, the texture of the uploaded file is
\* preloaded (line 641) and the row is returned; otherwise the file is removed
\* from the storage again
UploadInsertArrives(ok) ==
    \E n \in 1..Len(uploads) :
        /\ uploads[n].stage = "insert"
        /\ LET id   == NewRowId(uploads[n].collageId)
               sent == FeedSends("INSERT", id)
               url  == FileUrl(uploads[n].collageId)
               call == getTexture(CacheState, url)
           IN IF ok
              THEN /\ id \notin remote
                   /\ Len(events \o sent) <= MaxEvents
                   /\ Len(call.state.promises) <= MaxLoads
                   /\ remote' = remote \cup {id}
                   /\ events' = events \o sent
                   /\ ApplyCache(call.state)
                   /\ cacheCall' = CacheCallOf("getTexture", url, call.returned,
                                               call.startedLoad)
                   /\ uploads' = [uploads EXCEPT ![n].stage = "resolved"]
              ELSE /\ uploads' = [uploads EXCEPT ![n].stage = "cleanup"]
                   /\ UNCHANGED <<remote, events, cacheVars>>
        /\ UNCHANGED <<realtimeChannel, isRealtimeConnected, pollingInterval,
                       channelsCreated, removedChannels, pollErrorLogged, chanState,
                       confirmed, staleClosed, deadlines, polls, remoteFrozen>>
        /\ UNCHANGED <<currentCollage, connects, deletes, pageVars>>
        /\ UNCHANGED <<slotVars, storeVars>>

\* the removal of the file after a failed insert is answered, lines 633-634
UploadCleanupArrives ==
    \E n \in 1..Len(uploads) :
        /\ uploads[n].stage = "cleanup"
        /\ uploads' = [uploads EXCEPT ![n].stage = "rejected"]
        /\ UNCHANGED <<currentCollage, connects, deletes, pageVars>>
        /\ UNCHANGED <<slotVars, storeVars, syncVars, cacheVars>>

\* a session in which the client deletes photos
DeleteNext ==
    \/ \E photoId \in RemoteIds : DeletePhoto(photoId)
    \/ \E answer \in {"ok", "PGRST116", "error"} : DeleteSelectArrives(answer)
    \/ \E answer \in {"ok", "error"} : DeleteStorageArrives(answer)
    \/ \E answer \in {"ok", "error"} : DeleteRowArrives(answer)
    \/ \E collageId \in Collages : SetupRealtimeSubscription(collageId)
    \/ ChannelStatus("SUBSCRIBED")
    \/ DeadlineFires
    \/ PollTickOk
    \/ PollDeliver
    \/ \E eventType \in {"INSERT", "DELETE"}, id \in RemoteIds :
           RemoteChange(eventType, id)
    \/ EventDeliver
    \/ Tick

\* a session in which the client uploads photos
UploadNext ==
    \/ \E collageId \in Collages, valid \in BOOLEAN : UploadPhoto(collageId, valid)
    \/ \E ok \in BOOLEAN : UploadStorageArrives(ok)
    \/ \E ok \in BOOLEAN : UploadInsertArrives(ok)
    \/ UploadCleanupArrives
    \/ LoadSucceeds
    \/ \E collageId \in Collages : SetupRealtimeSubscription(collageId)
    \/ \E status \in {"SUBSCRIBED", "CHANNEL_ERROR"} : ChannelStatus(status)
    \/ DeadlineFires
    \/ PollTickOk
    \/ PollDeliver
    \/ EventDeliver

(***************************************************************************)
(***************************************************************************)
(* useRealtimeCollage: the connection effect (hooks/useRealtimeCollage.ts) *)
(***************************************************************************)
\* connectionKeyRef.current = null
NullKey == "null"

\* the hook is not mounted
NotMounted == [collageId |-> "unmounted", collageCode |-> "unmounted", autoConnect |-> FALSE]

\* the options the hook is rendered with; "" is an option left undefined
HookProps == [collageId : {"", "A", "B"}, collageCode : {"", "codeB"}, autoConnect : BOOLEAN]

\* const currentKey = collageId || collageCode, line 139
KeyOf(props) == IF props.collageId # "" THEN props.collageId ELSE props.collageCode

\* the collage a key names: an id names itself, a code the collage that has it
CollageOfKey(key) == IF key = "codeB" THEN "B" ELSE key

\* the body of the connection effect, lines 135-175, run with the ref at keyRef:
\* the ref it leaves, whether setupConnection() was called, and whether a cleanup
\* function was returned
connectionEffect(keyRef, props) ==
    IF ~props.autoConnect \/ KeyOf(props) = "" \/ keyRef = KeyOf(props)
    THEN [connectionKeyRef |-> keyRef, connects |-> FALSE, cleanup |-> FALSE]
    ELSE [connectionKeyRef |-> KeyOf(props), connects |-> TRUE, cleanup |-> TRUE]

HookConstructed ==
    /\ hookProps = NotMounted
    /\ connectionKeyRef = NullKey
    /\ effectCleanup = FALSE

\* React runs the cleanup function of the last effect run, lines 177-181, if that
\* run returned one
RunEffectCleanup ==
    IF effectCleanup
    THEN /\ ApplySync(cleanupRealtimeSubscription(SyncState))
         /\ chanState' = "none"
         /\ confirmed' = FALSE
         /\ staleClosed' = (staleClosed \/ realtimeChannel # NoChannel)
         /\ events' = << >>
    ELSE UNCHANGED <<photoState, lastRefreshTime, realtimeChannel, isRealtimeConnected,
                     pollingInterval, removedChannels, pollErrorLogged, chanState,
                     confirmed, staleClosed, events>>

\* the hook is mounted, or rendered with options that differ from the last ones in
\* a dependency of the effect: the cleanup of the last run, then the effect
HookRender(props) ==
    /\ ~ContinuationDue
    /\ props # hookProps
    /\ LET keyRef == IF effectCleanup THEN NullKey ELSE connectionKeyRef
           run    == connectionEffect(keyRef, props)
       IN /\ run.connects => Len(connects) < MaxConnects
          /\ hookProps' = props
          /\ connectionKeyRef' = run.connectionKeyRef
          /\ effectCleanup' = run.cleanup
          /\ connects' = IF run.connects
                         THEN Append(connects,
                                     CallOf(CollageOfKey(KeyOf(props)), "collage"))
                         ELSE connects
    /\ RunEffectCleanup
    /\ UNCHANGED <<channelsCreated, deadlines, polls, remote, remoteFrozen>>
    /\ UNCHANGED <<currentCollage, deletes, uploads, replayVars, layoutVars>>
    /\ UNCHANGED <<slotVars, now, storeCall, cacheVars>>

\* the hook is unmounted: the cleanup of the last run
HookUnmount ==
    /\ ~ContinuationDue
    /\ hookProps # NotMounted
    /\ hookProps' = NotMounted
    /\ connectionKeyRef' = NullKey
    /\ effectCleanup' = FALSE
    /\ RunEffectCleanup
    /\ UNCHANGED <<channelsCreated, deadlines, polls, remote, remoteFrozen>>
    /\ UNCHANGED <<clientVars, replayVars, layoutVars>>
    /\ UNCHANGED <<slotVars, now, storeCall, cacheVars>>

\* a page that renders the hook, and the connections the hook starts
HookNext ==
    \/ \E props \in HookProps : HookRender(props)
    \/ HookUnmount
    \/ \E ok \in BOOLEAN : CollageRowArrives(ok)
    \/ SettingsArrive
    \/ \E ok \in BOOLEAN : PhotosArrive(ok)
    \/ SubscribeAfterPhotos
    \/ ReturnNullAfterPhotos
    \/ ChannelStatus("SUBSCRIBED")
    \/ DeadlineFires

(***************************************************************************)
(* usePhotoPositions (hooks/usePhotoPositions.ts): the frame               *)
(***************************************************************************)
\* settings.photoCount || 100
DefaultPhotoCount == 100

slotCountOf(photoCount) == IF photoCount = 0 THEN DefaultPhotoCount ELSE photoCount

\* [0, 0, 0], the value a missing position or rotation is replaced with
DefaultVector == <<0, 0, 0>>

\* What patternGenerator.generatePositions(time) returned: an array of
\* positions and, when rotationsDefined, an array of rotations.  The entry of
\* slot i (0-based) is at index i + 1 and differs from [0, 0, 0].
GeneratedPositions(k) == [i \in 1..k |-> <<i, 1, 0>>]

GeneratedRotations(k) == [i \in 1..k |-> <<0, i, 0>>]

PatternStates ==
    {[positions |-> GeneratedPositions(MaxSlots), rotations |-> GeneratedRotations(MaxSlots),
      rotationsDefined |-> TRUE],
     [positions |-> GeneratedPositions(MaxSlots - 1), rotations |-> << >>,
      rotationsDefined |-> FALSE]}

\* patternState.positions[slotIndex] || [0, 0, 0]
positionOf(patternState, slotIndex) ==
    IF slotIndex + 1 \in DOMAIN patternState.positions
    THEN patternState.positions[slotIndex + 1]
    ELSE DefaultVector

\* patternState.rotations?.[slotIndex] || [0, 0, 0]
rotationOf(patternState, slotIndex) ==
    IF patternState.rotationsDefined /\ slotIndex + 1 \in DOMAIN patternState.rotations
    THEN patternState.rotations[slotIndex + 1]
    ELSE DefaultVector

\* calculatePositions, lines 135-145: the entries of the photos with a slot
RECURSIVE photoEntries(_, _, _, _)
photoEntries(safePhotos, assignments, count, patternState) ==
    IF safePhotos = << >> THEN << >>
    ELSE LET photo == Head(safePhotos)
             rest  == photoEntries(Tail(safePhotos), assignments, count, patternState)
         IN IF MapHas(assignments, photo.id) /\ assignments[photo.id] < count
            THEN <<[id             |-> photo.id,
                    created_at     |-> photo.created_at,
                    targetPosition |-> positionOf(patternState, assignments[photo.id]),
                    targetRotation |-> rotationOf(patternState, assignments[photo.id]),
                    slotIndex      |-> assignments[photo.id]]>> \o rest
            ELSE rest

\* calculatePositions, lines 148-159: a placeholder for every slot without entry
placeholderOf(i, patternState) ==
    [id             |-> "placeholder-" \o ToString(i),
     url            |-> "",
     targetPosition |-> positionOf(patternState, i),
     targetRotation |-> rotationOf(patternState, i),
     slotIndex      |-> i]

\* the steps i..count-1 of the loop, in two halves
RECURSIVE withPlaceholders(_, _, _, _)
withPlaceholders(entries, i, count, patternState) ==
    IF i >= count THEN entries
    ELSE IF i + 1 = count
         THEN LET hasPhoto == \E n \in 1..Len(entries) : entries[n].slotIndex = i
              IN IF ~hasPhoto THEN Append(entries, placeholderOf(i, patternState))
                 ELSE entries
         ELSE LET mid == (i + count) \div 2
              IN CHOOSE result \in {withPlaceholders(half, mid, count, patternState) :
                                       half \in {withPlaceholders(entries, i, mid,
                                                                  patternState)}} : TRUE

\* calculatePositions, line 162: sort((a, b) => a.slotIndex - b.slotIndex), stable
RECURSIVE insertEntry(_, _)
insertEntry(sorted, e) ==
    IF sorted = << >> THEN <<e>>
    ELSE IF e.slotIndex - sorted[Len(sorted)].slotIndex < 0
         THEN Append(insertEntry(SubSeq(sorted, 1, Len(sorted) - 1), e), sorted[Len(sorted)])
         ELSE Append(sorted, e)

\* entries[lo..hi] inserted one after the other, in two halves
RECURSIVE insertEntries(_, _, _, _)
insertEntries(sorted, entries, lo, hi) ==
    IF lo > hi THEN sorted
    ELSE IF lo = hi THEN insertEntry(sorted, entries[lo])
    ELSE LET mid == (lo + hi) \div 2
         IN CHOOSE result \in {insertEntries(half, entries, mid + 1, hi) :
                                  half \in {insertEntries(sorted, entries, lo, mid)}} : TRUE

sortBySlotIndex(entries) == insertEntries(<< >>, entries, 1, Len(entries))

\* calculatePositions, lines 132-162, from the map assignSlots returned
newPhotosWithPositions(photos, assignments, photoCount, patternState) ==
    LET safePhotos == safePhotosOf(photos)
        count      == slotCountOf(photoCount)
    IN sortBySlotIndex(
           withPlaceholders(photoEntries(safePhotos, assignments, count, patternState),
                            0, count, patternState))

\* updateSlotCount as a function of the table (the shuffled array it leaves is
\* rebuilt by the assignSlots call that follows before anything reads it)
updateSlotCount(assignments, occupied, total, newTotal) ==
    IF newTotal = total
    THEN [slotAssignments |-> assignments, occupiedSlots |-> occupied]
    ELSE [slotAssignments |-> dropBeyond(assignments, newTotal),
          occupiedSlots   |-> occupiedAfterDropBeyond(assignments, occupied, newTotal)]

\* The Math.random() draws of the shuffle in a render: every run of draws for
\* an array of at most MaxSlots free slots; for a longer array the run that
\* leaves the array in ascending order and the run that always draws 0
LayoutDraws(n) ==
    IF n <= MaxSlots THEN RandomDraws(n)
    ELSE {[i \in 1..(n - 1) |-> i], [i \in 1..(n - 1) |-> 0]}

\* the lists the hook is rendered with: those of at most two entries over two
\* of the photos
FrameIds == {"a", "b"}

LayoutLists ==
    {l \in PhotoLists : Len(l) <= 2 /\ \A i \in 1..Len(l) : l[i].id \in FrameIds \cup {""}}

LayoutCallOf(op, photoCount, patternState) ==
    [op |-> op, photoCount |-> photoCount, patternState |-> patternState]

\* settings of the scene before photoPositions was computed
NotComputed == [settings |-> [animationPattern |-> "none"], positions |-> << >>]

\* the hook before its first render: useState([]), line 103
LayoutConstructed ==
    /\ photosWithPositions = << >>
    /\ layoutCall = LayoutCallOf("none", 0, [positions |-> << >>, rotations |-> << >>,
                                             rotationsDefined |-> FALSE])
    /\ photoPositions = NotComputed

\* One render of the hook with its effects: updateSlotCount(photoCount || 100)
\* (lines 104 and 107-109), then calculatePositions (lines 121-168, 171-173)
LayoutRender(photos, photoCount, patternState) ==
    LET count   == slotCountOf(photoCount)
        resized == updateSlotCount(slotAssignments, occupiedSlots, totalSlots, count)
        prep    == assignSlotsPrepare(resized.slotAssignments, resized.occupiedSlots,
                                      safePhotosOf(photos))
    IN \E rnd \in LayoutDraws(FreeCount(count, prep.occupiedSlots)) :
         \E st \in {assignSlotsFinish(prep, count, rnd)} :
            /\ totalSlots' = count
            /\ slotAssignments' = st.slotAssignments
            /\ occupiedSlots' = st.occupiedSlots
            /\ availableSlots' = st.availableSlots
            /\ slotCall' = SlotCallOf("assignSlots", resized.slotAssignments,
                                      st.slotAssignments, prep.currentPhotoIds)
            /\ photosWithPositions' =
                   newPhotosWithPositions(photos, st.slotAssignments, photoCount,
                                          patternState)
            /\ layoutCall' = LayoutCallOf("render", photoCount, patternState)
            /\ UNCHANGED photoPositions
            /\ UNCHANGED <<storeVars, syncVars, cacheVars, clientVars, replayVars, hookVars>>

LayoutNext ==
    \E photos \in LayoutLists, photoCount \in 0..MaxSlots, patternState \in PatternStates :
        LayoutRender(photos, photoCount, patternState)

(***************************************************************************)
(* The scene's photoPositions (src/unnamed/part_006, lines 147-264)        *)
(***************************************************************************)
\* The settings photoPositions reads.  settings.patterns is undefined in them,
\* so every pattern takes its default parameters.  The float pattern, which
\* draws eight random numbers per slot, is computed for at most MaxFloatCount
\* slots.
SceneSettings ==
    {st \in [animationPattern : {"grid", "spiral", "wave", "float", "other"},
             photoCount       : 0..MaxSlots,
             gridAspectRatio  : {1},
             photoSize        : {4},
             photoSpacing     : {0, 1}] :
        st.animationPattern = "float" => st.photoCount <= MaxFloatCount}

\* Math.random() returns 0 or 0.5; a draw is twice the number returned
RandomValues == {0, 1}

\* the draws of one computation: eight per slot for "float", none otherwise
PositionDraws(settings) ==
    IF settings.animationPattern = "float"
    THEN [1..(8 * settings.photoCount) -> RandomValues]
    ELSE {<< >>}

\* Math.ceil(Math.sqrt(n))
CeilSqrt(n) == CHOOSE k \in 0..n : k * k >= n /\ \A j \in 0..(k - 1) : j * j < n

\* Math.ceil(n / d)
CeilDiv(n, d) == (n + d - 1) \div d

\* Lengths are in halves of a unit.  A coordinate that is a product of a
\* trigonometric function is kept as the term that determines it:
\* factor * sqrt(num / den) * fn(angle), the angle in halves of a radian, or
\* factor * fn(pi * num / den).
noRotation == [x |-> 0, y |-> 0, z |-> 0]

unitScale == [x |-> 1, y |-> 1, z |-> 1]

\* lines 162-177, and the default branch (lines 243-260) with y = 0
gridPosition(settings, i) ==
    LET cols == CeilSqrt(settings.photoCount * settings.gridAspectRatio)
        rows == CeilDiv(settings.photoCount, cols)
        col  == i % cols
        row  == i \div cols
    IN [x |-> (2 * col - (cols - 1)) * (settings.photoSize + settings.photoSpacing),
        y |-> 0,
        z |-> (2 * row - (rows - 1)) * (settings.photoSize + settings.photoSpacing),
        rotation |-> noRotation,
        scale    |-> unitScale]

\* lines 181-194: radius 15, heightStep 0.5
spiralPosition(settings, i) ==
    LET radius == [factor |-> 30, num |-> i, den |-> settings.photoCount]
    IN [x |-> [radius |-> radius, fn |-> "cos", angle |-> i],
        y |-> i,
        z |-> [radius |-> radius, fn |-> "sin", angle |-> i],
        rotation |-> [x |-> 0, y |-> i, z |-> 0],
        scale    |-> unitScale]

\* lines 197-213: frequency 0.5, amplitude 5, so t * Math.PI * 2 * waveFreq is
\* pi * i / photoCount
wavePosition(settings, i) ==
    [x |-> [num |-> 80 * i - 40 * settings.photoCount, den |-> settings.photoCount],
     y |-> [factor |-> 10, fn |-> "sin", num |-> i, den |-> settings.photoCount],
     z |-> [factor |-> 5, fn |-> "cos", num |-> i, den |-> settings.photoCount],
     rotation |-> [x |-> 0, y |-> [factor |-> 2, fn |-> "id", num |-> i,
                                   den |-> settings.photoCount], z |-> 0],
     scale    |-> unitScale]

\* lines 216-241: spread 25, height 30; the eight draws of slot i in the order
\* of the calls.  rotation.x and .z are in quarters, rotation.y in multiples of
\* pi, scale.x and .y in tenths.
floatPosition(settings, i, draws) ==
    LET d(n) == draws[8 * i + n]
    IN [x |-> (d(1) - 1) * 25,
        y |-> d(2) * 30,
        z |-> (d(3) - 1) * 25,
        rotation |-> [x |-> d(4) - 1, y |-> d(5), z |-> d(6) - 1],
        scale    |-> [x |-> 8 + 2 * d(7), y |-> 8 + 2 * d(8), z |-> 1]]

\* the switch of lines 159-261; slot i (0-based) is at index i + 1
photoPositionsOf(settings, draws) ==
    [n \in 1..settings.photoCount |->
        CASE settings.animationPattern = "grid"   -> gridPosition(settings, n - 1)
          [] settings.animationPattern = "spiral" -> spiralPosition(settings, n - 1)
          [] settings.animationPattern = "wave"   -> wavePosition(settings, n - 1)
          [] settings.animationPattern = "float"  -> floatPosition(settings, n - 1, draws)
          [] OTHER                                -> gridPosition(settings, n - 1)]

\* useMemo(..., [settings]) runs for a settings object
ComputePhotoPositions(settings) ==
    /\ \E draws \in PositionDraws(settings) :
           photoPositions' = [settings  |-> settings,
                              positions |-> photoPositionsOf(settings, draws)]
    /\ UNCHANGED <<photosWithPositions, layoutCall>>
    /\ UNCHANGED <<slotVars, storeVars, syncVars, cacheVars, clientVars, replayVars, hookVars>>

PatternNext == \E settings \in SceneSettings : ComputePhotoPositions(settings)

(***************************************************************************)
(* Collage store: one collection of feed payloads delivered in two orders  *)
(***************************************************************************)
\* the id the payloads are about
ReplayedId == "p1"

ReplayEvents == {"INSERT", "DELETE"}

\* s and t hold the same events, each as often
IsPermutation(s, t) ==
    /\ Len(s) = Len(t)
    /\ \A e \in ReplayEvents :
           Cardinality({i \in 1..Len(s) : s[i] = e}) = Cardinality({i \in 1..Len(t) : t[i] = e})

\* the store as constructed, and the stores that inserts have brought it to
EmptyStore == [photoState |-> InitialPhotoState, lastRefreshTime |-> 0]

ReplayStartStates ==
    {EmptyStore,
     addPhotoToState(EmptyStore, Photo(ReplayedId, "u1"), 1),
     addPhotoToState(addPhotoToState(EmptyStore, Photo(ReplayedId, "u1"), 1),
                     Photo("p2", "u1"), 1)}

\* nothing is being replayed
ReplayConstructed ==
    /\ deliveries = [first |-> << >>, second |-> << >>]
    /\ replicas = [first |-> EmptyStore, second |-> EmptyStore]

PageConstructed == ReplayConstructed /\ HookConstructed /\ LayoutConstructed

\* two stores in the same state, and one collection of payloads in two orders
ReplayStarts ==
    /\ \E s, t \in SeqsUpTo(ReplayEvents, MaxReplay) :
           /\ IsPermutation(s, t)
           /\ deliveries = [first |-> s, second |-> t]
    /\ \E start \in ReplayStartStates : replicas = [first |-> start, second |-> start]

\* the next payload of one of the orders reaches the callback of its store
ReplayDeliver(side) ==
    /\ deliveries[side] # << >>
    /\ replicas' = [replicas EXCEPT
                       ![side] = onPayload(@, [eventType |-> Head(deliveries[side]),
                                               row |-> Photo(ReplayedId, "u1")], now)]
    /\ deliveries' = [deliveries EXCEPT ![side] = Tail(@)]
    /\ UNCHANGED <<slotVars, storeVars, syncVars, cacheVars, clientVars, hookVars, layoutVars>>

ReplayNext == \E side \in {"first", "second"} : ReplayDeliver(side)

(* Specifications, one per component                                       *)
(***************************************************************************)
SlotNext ==
    \/ UpdateSlotCountSame
    \/ \E newTotal \in 0..MaxSlots : UpdateSlotCount(newTotal)
    \/ \E photos \in PhotoLists : AssignSlots(photos)

StoreNext ==
    \/ Tick
    \/ \E photo \in StorePhotos : AddPhotoToState(photo)
    \/ \E photoId \in StoreIds : RemovePhotoFromState(photoId)
    \/ \E photos \in SnapshotLists : UpdatePhotosFromArray(photos)
    \/ \E eventType \in {"INSERT", "DELETE", "UPDATE"}, photo \in StorePhotos :
           PayloadArrives(eventType, photo)

SlotsInit == SlotInit /\ StoreConstructed /\ SyncConstructed /\ CacheConstructed
    /\ ClientConstructed /\ PageConstructed

SpecSlots == SlotsInit /\ [][SlotNext]_vars

StoreInit == StoreConstructed /\ SlotsConstructed /\ SyncConstructed /\ CacheConstructed
    /\ ClientConstructed /\ PageConstructed

SpecStore == StoreInit /\ [][StoreNext]_vars

\* the store under feed payloads and poll answers
PollNext ==
    \/ Tick
    \/ \E eventType \in {"INSERT", "DELETE"}, photo \in StorePhotos :
           PayloadArrives(eventType, photo)
    \/ \E ok \in BOOLEAN, photos \in SnapshotLists :
           PollAnswers([ok |-> ok, data |-> IF ok THEN photos ELSE << >>])

PollInit == StoreInit

SpecPoll == PollInit /\ [][PollNext]_vars

SyncInit == StoreConstructed /\ SlotsConstructed /\ SyncConstructed /\ CacheConstructed
    /\ ClientConstructed /\ PageConstructed

SpecSync == SyncInit /\ [][SyncNext]_vars

CacheInit == CacheConstructed /\ StoreConstructed /\ SlotsConstructed /\ SyncConstructed
    /\ ClientConstructed /\ PageConstructed

SpecCache == CacheInit /\ [][CacheNext]_vars

ConnectInit == ClientConstructed /\ StoreConstructed /\ SlotsConstructed /\ SyncConstructed
    /\ CacheConstructed /\ PageConstructed

SpecConnect == ConnectInit /\ [][ConnectNext]_vars

DeleteInit == ConnectInit

SpecDelete == DeleteInit /\ [][DeleteNext]_vars

UploadInit == ConnectInit

SpecUpload == UploadInit /\ [][UploadNext]_vars

ReplayInit == ReplayStarts /\ HookConstructed /\ LayoutConstructed /\ StoreConstructed /\ SlotsConstructed
    /\ SyncConstructed /\ CacheConstructed /\ ClientConstructed

HookInit == ConnectInit

SpecHook == HookInit /\ [][HookNext]_vars

SpecReplay == ReplayInit /\ [][ReplayNext]_vars

LayoutInit == ConnectInit

SpecLayout == LayoutInit /\ [][LayoutNext]_vars

PatternInit == ConnectInit

SpecPattern == PatternInit /\ [][PatternNext]_vars

\* polling with the fairness of the timers: the interval keeps firing, fetches
\* keep succeeding, and an answered fetch reaches its callback (a fetch that fails
\* changes nothing but the error log)
FairSync ==
    /\ SyncInit
    /\ [][SyncNextFetchesSucceed]_vars
    /\ SF_vars(PollTickOk)
    /\ WF_vars(PollDeliver)

\* the ids the store holds
LocalIds == DOMAIN photoState.byId

\* the ids of the remote rows of a collage
RemoteIdsOf(collageId) == {id \in remote : CollageOf(id) = collageId}

(***************************************************************************)
(* C6  Eventual consistency under polling: once the remote table has       *)
(* stopped changing, a session that polls a collage either stops polling   *)
(* it or reaches a state whose local id set equals the remote id set of    *)
(* that collage.                                                           *)
(***************************************************************************)
C6_EventualConsistency ==
    \A c \in Collages :
        (remoteFrozen /\ pollingInterval = c)
            ~> (pollingInterval # c \/ LocalIds = RemoteIdsOf(c))

\* a poll result that brought the store to the frozen, non-empty remote set
C6_Witness ==
    /\ remoteFrozen
    /\ pollingInterval = "A"
    /\ LocalIds = RemoteIdsOf("A")
    /\ Cardinality(LocalIds) = 2

(***************************************************************************)
(* C14  Collection switch discards old items: when the photos request of   *)
(* fetchCollageById / fetchCollageByCode for the collage that is the       *)
(* current one has been answered and the call returns, with the snapshot   *)
(* or with the error, every item the store holds belongs to that collage.  *)
(***************************************************************************)
C14_SwitchDiscardsOldItems ==
    [][\A n \in 1..Len(connects) :
          ( /\ connects[n].stage \in {"subscribing", "rethrown"}
            /\ currentCollage = connects[n].id
            /\ connects'[n].stage \in {"returned collage", "returned null"} )
          => \A id \in DOMAIN photoState'.byId : CollageOf(id) = connects[n].id]_vars

(***************************************************************************)
(* C15  Failed poll keeps state: when the fetch of a poll tick fails, the   *)
(* callback that resumes with the error leaves photoState unchanged and    *)
(* leaves the poll timer as it is, so a timer that is active stays active  *)
(* for the same collage and the next tick fetches again.                   *)
(***************************************************************************)
C15_FailedPollKeepsState ==
    [][(\E i \in 1..Len(polls) :
            /\ ~polls[i].ok
            /\ polls' = SubSeq(polls, 1, i - 1) \o SubSeq(polls, i + 1, Len(polls)))
       => ( /\ photoState' = photoState
            /\ pollingInterval' = pollingInterval )]_vars

\* a poll has failed while the store held two photos, and the timer still runs
C15_Witness ==
    /\ pollErrorLogged
    /\ pollingInterval = "A"
    /\ Cardinality(DOMAIN photoState.byId) = 2
    /\ polls = << >>

(***************************************************************************)
(* C16  Updated replaces fields in place: when the feed delivers an UPDATE *)
(* payload for an id that is present, the stored item of that id is the    *)
(* delivered row afterwards and allIds is unchanged.                       *)
(***************************************************************************)
C16_UpdatedReplacesFields ==
    [][( /\ storeCall'.op = "UPDATE"
         /\ MapHas(photoState.byId, storeCall'.photos[1].id) )
       => ( /\ photoState'.byId[storeCall'.photos[1].id] = storeCall'.photos[1]
            /\ photoState'.allIds = photoState.allIds )]_vars

(***************************************************************************)
(* C17  Removed semantics: removePhotoFromState(id) leaves the state       *)
(* unchanged when id is absent; when id is present, byId loses exactly the *)
(* key id and keeps every other item, and allIds loses id and keeps the    *)
(* other ids in their order.                                               *)
(***************************************************************************)
C17_RemovedSemantics ==
    [][storeCall'.op = "removePhotoFromState"
       => LET id == storeCall'.photos[1].id
          IN IF ~MapHas(photoState.byId, id)
             THEN /\ photoState' = photoState
                  /\ lastRefreshTime' = lastRefreshTime
             ELSE /\ DOMAIN photoState'.byId = (DOMAIN photoState.byId) \ {id}
                  /\ \A x \in DOMAIN photoState'.byId :
                         photoState'.byId[x] = photoState.byId[x]
                  /\ id \notin SeqToSet(photoState'.allIds)
                  /\ photoState'.allIds =
                         SelectSeq(photoState.allIds, LAMBDA x : x # id)]_vars

\* the removal of the middle one of three ids
C17_Witness ==
    /\ storeCall.op = "removePhotoFromState"
    /\ storeCall.present
    /\ storeCall.photos[1].id = "p2"
    /\ photoState.allIds = <<"p1", "p3">>
    /\ DOMAIN photoState.byId = {"p1", "p3"}

(***************************************************************************)
(* C7  Cache dedup: a getTexture(url) call made while url has a pending    *)
(* entry and no cached texture returns the promise of that entry and       *)
(* starts no load; a call made while url has neither starts exactly one    *)
(* load and returns its new promise; every entry of loadingPromises is a   *)
(* pending promise with exactly one load in flight, its own; and a load    *)
(* that succeeds resolves its promise with the texture it puts in cache.   *)
(***************************************************************************)
LoadsOf(url, p) == {load \in loads : load.url = url /\ load.promise = p}

C7_CacheDedup ==
    /\ [][\A url \in Urls :
            (cacheCall'.op = "getTexture" /\ cacheCall'.url = url
             /\ ~MapHas(cache, url))
            => IF MapHas(loadingPromises, url)
               THEN /\ cacheCall'.returned = LoadPromise(loadingPromises[url])
                    /\ ~cacheCall'.startedLoad
                    /\ loads' = loads
                    /\ promises' = promises
                    /\ loadingPromises' = loadingPromises
               ELSE /\ cacheCall'.startedLoad
                    /\ Cardinality(loads') = Cardinality(loads) + 1
                    /\ Len(promises') = Len(promises) + 1
                    /\ cacheCall'.returned = LoadPromise(loadingPromises'[url])]_vars
    /\ [](\A url \in DOMAIN loadingPromises :
            /\ promises[loadingPromises[url]].status = "pending"
            /\ Cardinality(LoadsOf(url, loadingPromises[url])) = 1)
    /\ [][\A url \in Urls :
            (cacheCall'.op = "onLoad" /\ cacheCall'.url = url)
            => /\ promises'[cacheCall'.returned.ref].status = "resolved"
               /\ promises'[cacheCall'.returned.ref].texture = cache'[url]]_vars

\* a second getTexture for a url whose load is still in flight: same promise,
\* no second load
C7_Witness ==
    /\ cacheCall.op = "getTexture"
    /\ ~cacheCall.startedLoad
    /\ cacheCall.returned.kind = "loadPromise"
    /\ MapHas(loadingPromises, cacheCall.url)
    /\ cacheCall.returned.ref = loadingPromises[cacheCall.url]
    /\ Cardinality({load \in loads : load.url = cacheCall.url}) = 1

(***************************************************************************)
(* C8  Cache failure is not memoized: when a load for url fails its        *)
(* promise is rejected and url has no entry in loadingPromises afterwards; *)
(* no entry of loadingPromises ever holds a rejected promise; and a        *)
(* getTexture(url) call made while url has no entry and no cached texture  *)
(* starts a new load and returns a new pending promise, whatever failed    *)
(* before.                                                                 *)
(***************************************************************************)
C8_FailureNotMemoized ==
    /\ [][\A url \in Urls :
            (cacheCall'.op = "onError" /\ cacheCall'.url = url)
            => /\ promises'[cacheCall'.returned.ref].status = "rejected"
               /\ ~MapHas(loadingPromises', url)
               /\ cache' = cache]_vars
    /\ [](\A url \in DOMAIN loadingPromises :
            promises[loadingPromises[url]].status # "rejected")
    /\ [][\A url \in Urls :
            (cacheCall'.op = "getTexture" /\ cacheCall'.url = url
             /\ ~MapHas(cache, url) /\ ~MapHas(loadingPromises, url))
            => /\ cacheCall'.startedLoad
               /\ cacheCall'.returned.kind = "loadPromise"
               /\ cacheCall'.returned.ref \notin DOMAIN promises
               /\ promises'[cacheCall'.returned.ref].status = "pending"
               /\ [url |-> url, promise |-> cacheCall'.returned.ref] \in loads']_vars

\* a getTexture after a failed load of the same url: a new load with a new promise,
\* while the promise of the failed load stays rejected
C8_Witness ==
    /\ cacheCall.op = "getTexture"
    /\ cacheCall.startedLoad
    /\ \E p \in DOMAIN promises :
          /\ promises[p].url = cacheCall.url
          /\ promises[p].status = "rejected"
          /\ p < cacheCall.returned.ref
    /\ Cardinality({load \in loads : load.url = cacheCall.url}) = 1
    /\ cache = EmptyMap /\ disposed = {}

(***************************************************************************)
(* C9  Deadline fallback: when the 5 s timer of the held channel fires     *)
(* and that channel has never reported SUBSCRIBED, or when the held        *)
(* channel reports CHANNEL_ERROR or TIMED_OUT, the poll timer is active    *)
(* for the channel's collage afterwards; and while the held channel stays  *)
(* unconfirmed after its timer has fired, the poll timer stays active for  *)
(* its collage; and while a channel is held (its session has not been      *)
(* unsubscribed) and the last status it reported is the error or the       *)
(* timeout, the poll timer stays active for its collage.                   *)
(***************************************************************************)
DeadlinePassedUnconfirmed ==
    /\ realtimeChannel # NoChannel
    /\ realtimeChannel \notin SeqToSet(deadlines)
    /\ ~confirmed

\* the held channel's 5 s timer fires and the channel has never confirmed, or
\* the held channel reports an error or a timeout
FallbackTrigger ==
    /\ realtimeChannel # NoChannel
    /\ \/ DeadlineFires /\ Head(deadlines) = realtimeChannel /\ ~confirmed
       \/ ChannelStatus("CHANNEL_ERROR")
       \/ ChannelStatus("TIMED_OUT")

C9_DeadlineFallback ==
    /\ [](DeadlinePassedUnconfirmed => pollingInterval = realtimeChannel.collageId)
    /\ []((realtimeChannel # NoChannel /\ chanState = "errored")
            => pollingInterval = realtimeChannel.collageId)
    /\ [][FallbackTrigger => pollingInterval' = realtimeChannel.collageId]_vars

(***************************************************************************)
(* C11  Live to Polling on feed loss: when the held channel of a Live      *)
(* session reports CHANNEL_ERROR, TIMED_OUT or CLOSED, a poll timer is     *)
(* active afterwards. Stated for the reports that arrive when no 5 s timer *)
(* is pending any more, where nothing else will start the polling later.   *)
(***************************************************************************)
C11_LiveToPolling ==
    [][( /\ isRealtimeConnected
         /\ realtimeChannel # NoChannel
         /\ deadlines = << >>
         /\ \/ ChannelStatus("CHANNEL_ERROR")
            \/ ChannelStatus("TIMED_OUT")
            \/ ChannelStatus("CLOSED") )
       => pollingInterval' # NoTimer]_vars

(***************************************************************************)
(* C12  Unsubscribe cancels all timers: every pending 5 s timer belongs to *)
(* the held channel, and while no channel is held no poll timer is active. *)
(***************************************************************************)
C12_UnsubscribeCancelsTimers ==
    /\ \A i \in 1..Len(deadlines) : deadlines[i] = realtimeChannel
    /\ realtimeChannel = NoChannel => pollingInterval = NoTimer

(***************************************************************************)
(* C13  Single subscription: every channel created so far has been passed  *)
(* to removeChannel, except the held one; and when a channel is created,   *)
(* all channels created before it have been passed to removeChannel.       *)
(***************************************************************************)
C13_SingleSubscription ==
    /\ [](\A n \in 1..channelsCreated :
            n \in removedChannels \/ realtimeChannel.n = n)
    /\ [][channelsCreated' > channelsCreated
           => \A n \in 1..channelsCreated : n \in removedChannels']_vars

\* the second subscription holds its channel, the first channel has been removed
C13_Witness ==
    /\ channelsCreated = 2
    /\ realtimeChannel.n = 2
    /\ removedChannels = {1}

(***************************************************************************)
(* C10  Live excludes polling: whenever isRealtimeConnected is true no     *)
(* poll timer is active.                                                   *)
(***************************************************************************)
C10_LiveExcludesPolling == isRealtimeConnected => pollingInterval = NoTimer

\* a confirmed channel whose 5 s timer has fired, with polls of the fallback
\* still in flight: the confirmation stopped the polling, or the timer started none
C10_Witness ==
    /\ isRealtimeConnected
    /\ chanState = "joined"
    /\ realtimeChannel \notin SeqToSet(deadlines)
    /\ polls # << >>
    /\ pollingInterval = NoTimer

(***************************************************************************)
(* C18  Optimistic delete: the step that starts deletePhoto(id) leaves id  *)
(* out of byId and allIds while the call still waits for the answer to its *)
(* first request; and a DELETE payload for the id of a deletePhoto call    *)
(* that reaches the callback after that call started leaves photoState and *)
(* lastRefreshTime as they are.                                            *)
(***************************************************************************)
C18_OptimisticDelete ==
    [][ /\ Len(deletes') > Len(deletes)
           => LET call == deletes'[Len(deletes')]
              IN /\ call.stage = "select"
                 /\ ~MapHas(photoState'.byId, call.id)
                 /\ call.id \notin SeqToSet(photoState'.allIds)
        /\ ( /\ EventDeliver
             /\ Head(events).eventType = "DELETE"
             /\ \E n \in 1..Len(deletes) : deletes[n].id = Head(events).row.id )
           => ( /\ photoState' = photoState
                /\ lastRefreshTime' = lastRefreshTime ) ]_vars

(***************************************************************************)
(* C19  Optimistic upload: when the insert of an uploadPhoto call is       *)
(* answered with the new row and the call returns it, the new row's id is  *)
(* in byId.                                                                *)
(***************************************************************************)
C19_OptimisticUpload ==
    [][\A n \in 1..Len(uploads) :
          (uploads[n].stage = "insert" /\ uploads'[n].stage = "resolved")
          => MapHas(photoState'.byId, NewRowId(uploads[n].collageId))]_vars

(***************************************************************************)
(* C20  No auto-rollback: the step in which a deletePhoto call fails (the  *)
(* select fails with an error other than PGRST116, or the delete of the    *)
(* row fails) rejects the call and leaves photoState and lastRefreshTime   *)
(* as they are; and the id of a deletePhoto call that is absent from byId  *)
(* becomes present again only by a feed payload for that id or by the      *)
(* answer of a poll.                                                       *)
(***************************************************************************)
C20_NoAutoRollback ==
    [][ /\ (DeleteSelectArrives("error") \/ DeleteRowArrives("error"))
           => \E n \in 1..Len(deletes) :
                  deletes[n].stage # "rejected" /\ deletes'[n].stage = "rejected"
        /\ \A n \in 1..Len(deletes) :
              /\ (deletes[n].stage # "rejected" /\ deletes'[n].stage = "rejected")
                 => ( /\ photoState' = photoState
                      /\ lastRefreshTime' = lastRefreshTime )
              /\ (~MapHas(photoState.byId, deletes[n].id)
                  /\ MapHas(photoState'.byId, deletes[n].id))
                 => \/ /\ EventDeliver
                       /\ Head(events).row.id = deletes[n].id
                       /\ Head(events).eventType # "DELETE"
                    \/ PollDeliver ]_vars

\* deletePhoto removed a photo the store held and was rejected: the row is still in
\* the remote table, the id is absent locally and nothing is on its way
C20_Witness ==
    /\ storeCall.op = "removePhotoFromState"
    /\ storeCall.present
    /\ storeCall.photos[1].id = "p1"
    /\ deletes = <<[id |-> "p1", stage |-> "rejected"]>>
    /\ "p1" \in remote
    /\ ~MapHas(photoState.byId, "p1")
    /\ polls = << >>
    /\ events = << >>

(***************************************************************************)
(* C21  Order-insensitive final state: when one collection of INSERT and   *)
(* DELETE payloads for one id has been delivered to two stores that were   *)
(* in the same state, in two orders, the two stores hold the same byId     *)
(* and the same allIds.                                                    *)
(***************************************************************************)
C21_OrderInsensitive ==
    (deliveries.first = << >> /\ deliveries.second = << >>)
    => /\ replicas.first.photoState.byId = replicas.second.photoState.byId
       /\ replicas.first.photoState.allIds = replicas.second.photoState.allIds

(***************************************************************************)
(* C22  Same-key subscribe is a no-op: a render of the mounted hook with   *)
(* autoConnect and with options whose key is the key of the session the    *)
(* hook has set up and that holds its channel leaves the held channel, the *)
(* channels created and removed, the pending timers, the poll timer and    *)
(* the connect calls as they are.                                          *)
(***************************************************************************)
C22_SameKeyNoOp ==
    [][( /\ hookProps # NotMounted
         /\ hookProps' # NotMounted
         /\ hookProps' # hookProps
         /\ hookProps'.autoConnect
         /\ KeyOf(hookProps') = connectionKeyRef
         /\ realtimeChannel # NoChannel
         /\ realtimeChannel.collageId = CollageOfKey(connectionKeyRef) )
       => ( /\ realtimeChannel' = realtimeChannel
            /\ channelsCreated' = channelsCreated
            /\ removedChannels' = removedChannels
            /\ deadlines' = deadlines
            /\ pollingInterval' = pollingInterval
            /\ connects' = connects )]_vars

(***************************************************************************)
(* C23  dispose removes unconditionally: after dispose(url) neither cache  *)
(* nor loadingPromises has an entry for url, and a url with no entry gets  *)
(* one only by a getTexture(url) call.                                     *)
(***************************************************************************)
C23_DisposeRemoves ==
    [][\A url \in Urls :
          /\ (cacheCall'.op = "dispose" /\ cacheCall'.url = url)
             => (~MapHas(cache', url) /\ ~MapHas(loadingPromises', url))
          /\ (~HasEntry(url) /\ (MapHas(cache', url) \/ MapHas(loadingPromises', url)))
             => (cacheCall'.op = "getTexture" /\ cacheCall'.url = url)]_vars

(***************************************************************************)
(* C24  clear empties the cache: after clear() cache and loadingPromises   *)
(* are empty, and while both are empty an entry appears only by a          *)
(* getTexture call, not by the callback of a load that was in flight.      *)
(***************************************************************************)
C24_ClearEmpties ==
    [][ /\ cacheCall'.op = "clear"
           => (cache' = EmptyMap /\ loadingPromises' = EmptyMap)
        /\ ( /\ cache = EmptyMap /\ loadingPromises = EmptyMap
             /\ (cache' # EmptyMap \/ loadingPromises' # EmptyMap) )
           => cacheCall'.op = "getTexture" ]_vars

(***************************************************************************)
(* C25  Oldest-unassigned-first: in an assignSlots call, an id of the list *)
(* that had no slot and gets none does not come before an id that had no   *)
(* slot and gets one, in the order created_at ascending with ties broken   *)
(* by id (for photos that have a created_at).                              *)
(***************************************************************************)
C25_OldestUnassignedFirst ==
    [][slotCall'.op = "assignSlots"
       => \A x, y \in slotCall'.ids :
             ( /\ ~MapHas(slotAssignments, x) /\ MapHas(slotAssignments', x)
               /\ ~MapHas(slotAssignments', y)
               /\ CreatedAtOf(x) # NoDate /\ CreatedAtOf(y) # NoDate )
             => ~ \/ CreatedAtOf(y) < CreatedAtOf(x)
                  \/ (CreatedAtOf(y) = CreatedAtOf(x) /\ IdRank(y) < IdRank(x))]_vars

(***************************************************************************)
(* C26  Zero slots: a render with the slot count (settings.photoCount) set *)
(* to 0 leaves no photo with a slot and makes the frame                    *)
(* (photosWithPositions) the empty sequence, whatever the photo list.      *)
(***************************************************************************)
C26_ZeroSlots ==
    [][(layoutCall'.op = "render" /\ layoutCall'.photoCount = 0)
       => (slotAssignments' = EmptyMap /\ photosWithPositions' = << >>)]_vars

(***************************************************************************)
(* C27  Position determinism: a computation of the slot positions made     *)
(* with the settings (pattern, slot count, sizes) of the computation       *)
(* before it yields the same coordinates for every slot index, for each    *)
(* of the patterns grid, spiral, wave and float.                           *)
(***************************************************************************)
C27_PositionDeterminism ==
    [][photoPositions'.settings = photoPositions.settings
       => photoPositions'.positions = photoPositions.positions]_vars

(***************************************************************************)
(* C28  Out-of-range slot index is signaled: a render does not put into    *)
(* the frame an entry for a slot index for which the generator produced    *)
(* no position (such an index is an error to signal to the caller, not an  *)
(* index to give a default position).                                      *)
(***************************************************************************)
C28_OutOfRangeSignaled ==
    [][layoutCall'.op = "render"
       => \A n \in 1..Len(photosWithPositions') :
              photosWithPositions'[n].slotIndex + 1
                  \in DOMAIN layoutCall'.patternState.positions]_vars

(***************************************************************************)
(* C29  Maximal assignment: after an assignSlots call the number of        *)
(* assigned photos is the smaller of the number of photos in the list and  *)
(* the slot count.  When all slots but one are held by photos of the list  *)
(* and the call gives a slot to a new photo (the table was full and one    *)
(* photo left it), the new photo gets the one free slot and the photos of  *)
(* the list keep theirs.                                                   *)
(***************************************************************************)
C29_MaximalAssignment ==
    [][slotCall'.op = "assignSlots"
       => /\ Cardinality(DOMAIN slotAssignments') =
                 IF Cardinality(slotCall'.ids) < totalSlots'
                 THEN Cardinality(slotCall'.ids) ELSE totalSlots'
          /\ LET stay == (DOMAIN slotAssignments) \cap slotCall'.ids
             IN \A y \in (DOMAIN slotAssignments') \ (DOMAIN slotAssignments) :
                    Cardinality(stay) = totalSlots' - 1
                    => /\ {slotAssignments'[y]} =
                              (0..(totalSlots' - 1)) \ {slotAssignments[k] : k \in stay}
                       /\ \A k \in stay : slotAssignments'[k] = slotAssignments[k]]_vars

\* a full table of at least two slots after a call that dropped a photo, kept
\* one and gave a slot to a new one
C29_Witness ==
    /\ slotCall.op = "assignSlots"
    /\ slotCall.kept /\ slotCall.dropped /\ slotCall.added
    /\ totalSlots >= 2
    /\ Cardinality(DOMAIN slotAssignments) = totalSlots
    /\ Cardinality(slotCall.ids) = totalSlots

(***************************************************************************)
(* C30  Resize keeps what fits: updateSlotCount(n) removes exactly the     *)
(* assignments whose slot index is >= n and leaves the others as they      *)
(* are; after an assignSlots call every assigned id is in the list of      *)
(* that call.                                                              *)
(***************************************************************************)
C30_ResizeKeepsWhatFits ==
    [][/\ slotCall'.op \in {"updateSlotCount", "updateSlotCountSame"}
          => /\ DOMAIN slotAssignments' =
                    {x \in DOMAIN slotAssignments : slotAssignments[x] < totalSlots'}
             /\ \A x \in DOMAIN slotAssignments' : slotAssignments'[x] = slotAssignments[x]
       /\ slotCall'.op = "assignSlots"
          => DOMAIN slotAssignments' \subseteq slotCall'.ids]_vars

\* a table that was shrunk: an assignment was dropped, one is left, and a slot
\* is free
C30_Witness ==
    /\ slotCall.op = "updateSlotCount"
    /\ slotCall.dropped
    /\ Cardinality(DOMAIN slotAssignments) >= 1
    /\ Cardinality(DOMAIN slotAssignments) < totalSlots

(***************************************************************************)
(* C31  Poll change detection: when neither the local id list nor the      *)
(* snapshot of a successful poll holds an id twice, the poll callback      *)
(* applies the snapshot (the store then holds the snapshot's rows in the   *)
(* snapshot's order) if the two id sets differ, and leaves the collection  *)
(* state as it is if they are equal, whatever the order and the fields of  *)
(* the snapshot's rows.                                                    *)
(***************************************************************************)
C31_PollChangeDetection ==
    [][LET photos  == storeCall'.photos
           newIds  == [i \in 1..Len(photos) |-> photos[i].id]
           dupFree(ids) == \A i, j \in 1..Len(ids) : ids[i] = ids[j] => i = j
       IN ( /\ storeCall'.op = "poll"
            /\ storeCall' # storeCall
            /\ dupFree(photoState.allIds)
            /\ dupFree(newIds) )
          => IF SeqToSet(newIds) # SeqToSet(photoState.allIds)
             THEN /\ photoState'.allIds = newIds
                  /\ DOMAIN photoState'.byId = SeqToSet(newIds)
                  /\ \A i \in 1..Len(photos) : photoState'.byId[photos[i].id] = photos[i]
                  /\ photoState'.lastUpdated = now
             ELSE /\ photoState' = photoState
                  /\ lastRefreshTime' = lastRefreshTime]_vars

\* a poll whose snapshot held the local ids in another order and one row with
\* other fields, and was not applied
C31_Witness ==
    /\ storeCall.op = "poll"
    /\ storeCall.present
    /\ Len(storeCall.photos) = 2
    /\ storeCall.photos[1].id # storeCall.photos[2].id
    /\ photoState.allIds = <<storeCall.photos[2].id, storeCall.photos[1].id>>
    /\ \E i \in 1..2 : photoState.byId[storeCall.photos[i].id] # storeCall.photos[i]

(***************************************************************************)
(* C32  Snapshot equals event replay: a snapshot leaves the collection     *)
(* (byId and allIds) as the delivery, in some order, of an INSERT for      *)
(* each row of the snapshot that is absent locally and of a DELETE for     *)
(* each local id absent from the snapshot leaves it; so the rows present   *)
(* before and after keep their stored fields and their relative order.     *)
(* Stated for snapshots and local lists that hold no id twice.             *)
(***************************************************************************)
C32_SnapshotEqualsReplay ==
    [][( /\ storeCall'.op = "updatePhotosFromArray"
         /\ Cardinality(IdsOf(storeCall'.photos)) = Len(storeCall'.photos)
         /\ Cardinality(SeqToSet(photoState.allIds)) = Len(photoState.allIds) )
       => LET photos == storeCall'.photos
              gone   == SelectSeq(photoState.allIds, LAMBDA id : id \notin IdsOf(photos))
              fresh  == SelectSeq(photos, LAMBDA p : ~MapHas(photoState.byId, p.id))
              payloads ==
                  [i \in 1..Len(gone) |->
                       [eventType |-> "DELETE", row |-> photoState.byId[gone[i]]]]
                  \o [i \in 1..Len(fresh) |-> [eventType |-> "INSERT", row |-> fresh[i]]]
              n      == Len(payloads)
              orders == {q \in [1..n -> 1..n] : \A i, j \in 1..n : q[i] = q[j] => i = j}
          IN \E q \in orders :
                 LET replayed == deliverAll(StoreState, [i \in 1..n |-> payloads[q[i]]], now)
                 IN /\ photoState'.byId = replayed.photoState.byId
                    /\ photoState'.allIds = replayed.photoState.allIds]_vars

(***************************************************************************)
(* C33  Frame shape: the frame a render produces has exactly slot_count    *)
(* entries, the entry at place i being that of slot index i - 1; the entry *)
(* of a slot is the photo assigned to it when there is one and the slot's  *)
(* placeholder otherwise, and no photo is in two entries.                  *)
(***************************************************************************)
C33_FrameShape ==
    [][layoutCall'.op = "render"
       => LET frame == photosWithPositions'
              count == slotCountOf(layoutCall'.photoCount)
          IN /\ Len(frame) = count
             /\ \A n \in 1..Len(frame) :
                    /\ frame[n].slotIndex = n - 1
                    /\ IF \E id \in DOMAIN slotAssignments' : slotAssignments'[id] = n - 1
                       THEN /\ MapHas(slotAssignments', frame[n].id)
                            /\ slotAssignments'[frame[n].id] = n - 1
                       ELSE frame[n] = placeholderOf(n - 1, layoutCall'.patternState)
             /\ \A m, n \in 1..Len(frame) : frame[m].id = frame[n].id => m = n]_vars

(***************************************************************************)
(* C34  No stale poll after Live: while the held channel is confirmed      *)
(* (SUBSCRIBED reported, isRealtimeConnected set), the answer of a poll    *)
(* fetch, also of one that was in flight at the confirmation, leaves the   *)
(* stored items as they are: it removes no item the feed inserted and      *)
(* re-adds none the feed removed.                                          *)
(***************************************************************************)
C34_NoStalePollAfterLive ==
    [][( /\ realtimeChannel # NoChannel /\ chanState = "joined" /\ isRealtimeConnected
         /\ Len(polls') < Len(polls) )
       => photoState' = photoState]_vars

(***************************************************************************)
(* C35  Snapshots belong to the current collection: the answer of a poll   *)
(* fetch changes the stored items only if the fetch asked for the          *)
(* collection of the held channel; a fetch of a previous collection,       *)
(* started by that collection's poll timer or 5 s deadline, writes         *)
(* nothing.                                                                *)
(***************************************************************************)
C35_SnapshotOfCurrentCollection ==
    [][( /\ Len(polls') < Len(polls)
         /\ photoState' # photoState )
       => \E i \in 1..Len(polls) :
              /\ polls' = SubSeq(polls, 1, i - 1) \o SubSeq(polls, i + 1, Len(polls))
              /\ polls[i].collageId = realtimeChannel.collageId]_vars

(***************************************************************************)
(* C37  Released handles are inert: when a channel that was handed to      *)
(* removeChannel reports a status to its subscribe callback, the store's   *)
(* isRealtimeConnected, its poll timer and its stored items stay as they   *)
(* are.                                                                    *)
(***************************************************************************)
C37_ReleasedHandlesInert ==
    [][(staleClosed /\ ~staleClosed')
       => ( /\ isRealtimeConnected' = isRealtimeConnected
            /\ pollingInterval' = pollingInterval
            /\ photoState' = photoState )]_vars

(***************************************************************************)
(* C36  Last request wins: once every fetch the hook started has returned, *)
(* the store is that of the hook's most recent request.  If that request   *)
(* was a teardown (the effect's cleanup ran and no connection followed)    *)
(* no channel is held; if it was a connection whose fetches succeeded,     *)
(* currentCollage and the held channel are those of its collage.           *)
(***************************************************************************)
C36_LastRequestWins ==
    (\A n \in 1..Len(connects) : connects[n].stage \in {"returned collage", "returned null"})
    => IF effectCleanup
       THEN connects[Len(connects)].stage = "returned collage"
            => ( /\ currentCollage = connects[Len(connects)].id
                 /\ realtimeChannel # NoChannel
                 /\ realtimeChannel.collageId = connects[Len(connects)].id )
       ELSE realtimeChannel = NoChannel

(***************************************************************************)
(* C38  Cache entry states are exclusive: no url is at the same time a key *)
(* of cache (a loaded texture) and a key of loadingPromises (a load in     *)
(* progress).                                                              *)
(***************************************************************************)
C38_EntryStatesExclusive ==
    \A url \in Urls : ~(MapHas(cache, url) /\ MapHas(loadingPromises, url))

\* a load of a url has just completed while another load of that url, started
\* after a clear(), is still in flight, and the other url is being loaded
C38_Witness ==
    /\ cacheCall.op = "onLoad"
    /\ MapHas(cache, cacheCall.url)
    /\ \E load \in loads : load.url = cacheCall.url
    /\ \E url \in Urls \ {cacheCall.url} : MapHas(loadingPromises, url)

(***************************************************************************)
(* C39  One in-flight load per url: no two loads of the same url are in    *)
(* flight at once, and when a load completes (onLoad or onError) the       *)
(* loadingPromises entry of a later load of the same url stays.            *)
(***************************************************************************)
C39_OneLoadPerUrl ==
    [][/\ \A l1, l2 \in loads' : l1.url = l2.url => l1 = l2
       /\ \A load \in loads \ loads' :
              ( /\ MapHas(loadingPromises, load.url)
                /\ loadingPromises[load.url] # load.promise )
              => ( /\ MapHas(loadingPromises', load.url)
                   /\ loadingPromises'[load.url] = loadingPromises[load.url] )]_vars

====
